---------------------------- MODULE Spec2Model ----------------------------
(***************************************************************************)
(* A model of the circular-statistics engine of ski-bearing-stats:         *)
(* get_bearing_summary_stats and get_bearing_histogram (bearing.py), the   *)
(* per-ski-area analysis and the hierarchical aggregation (analyze.py).    *)
(*                                                                         *)
(* Numbers.  The code computes in float64 and rounds its outputs to 7      *)
(* decimal places (the mean bearing in radians to 10).  TLC has 32-bit     *)
(* integers, so the model computes in fixed point and carries the code's   *)
(* decimal places reduced by PrecisionCut:                                 *)
(*   grid unit   10^-OutDigits        rounded outputs, weights             *)
(*   udeg        10^-6 degree         bearings before rounding             *)
(*   urad        10^-8 radian         angles before rounding               *)
(*   S           2^20                 cos, sin, alignment, affinities      *)
(*   V unit      grid unit / S        components of the vector sum         *)
(* cos, sin, atan2 and the modulus are computed by CORDIC to about 10^-7,  *)
(* as float64 computes them to about 10^-16: well below every rounding     *)
(* step and threshold of the code.                                         *)
(***************************************************************************)
EXTENDS Integers, Sequences, FiniteSets, TLC

\* round(x, 7) of bearing.py:301-309
ROUND_DECIMALS == 7
\* np.round(mean_bearing_rad, 10) of bearing.py:288
RAD_DECIMALS == 10
\* the guards "> 1e-10" of bearing.py:286-287
EPS_DECIMALS == 10
\* decimal places the model drops from the three above
PrecisionCut == 5

OutDigits == ROUND_DECIMALS - PrecisionCut
RadDigits == RAD_DECIMALS - PrecisionCut
EpsDigits == EPS_DECIMALS - PrecisionCut

\* the scale of cos, sin, alignment and the affinities
S == 2 ^ 20
\* udeg per degree, urad per radian
UdegPerDeg == 10 ^ 6
UradPerRad == 10 ^ 8
\* one grid unit of degrees in udeg
GridDeg == UdegPerDeg \div 10 ^ OutDigits
\* the rounding step of the mean bearing in urad
GridRad == UradPerRad \div 10 ^ RadDigits
\* 1e-10 in V units (a grid unit is S V units)
EpsV == (S * 10 ^ OutDigits) \div (10 ^ EpsDigits)

\* null / None where a number is expected, NaN, and None where a string or
\* a list is expected (a list xs that is given is <<xs>>)
NULL == 0 - 2 ^ 30
NAN == 1 - 2 ^ 30
None == "None"
Omitted == <<>>
Given(xs) == <<xs>>

\* an array held in memory: its elements, computed once
np_array(xs) == SubSeq(xs, 1, Len(xs))

Abs(x) == IF x < 0 THEN -x ELSE x
Sign(x) == IF x < 0 THEN -1 ELSE 1

(***************************************************************************)
(* Fixed-point arithmetic that stays within 32 bits.                       *)
(***************************************************************************)
\* x * c / 2^30 to the nearest integer, for 0 <= x < 2^30 and 0 <= c < 2^30
Mul30(x, c) ==
    LET xh == x \div 2 ^ 15
        xl == x % 2 ^ 15
        ch == c \div 2 ^ 15
        cl == c % 2 ^ 15
    IN xh * ch + ((xh * cl + xl * ch) + ((xl * cl) \div 2 ^ 15) + 2 ^ 14) \div 2 ^ 15

\* a * b / S for a and b of scale S, |a| < 2^25 and |b| < 2^25
FixMul(a, b) == Sign(a) * Sign(b) * Mul30(Abs(a) * 2 ^ 5, Abs(b) * 2 ^ 5)

\* Python's round(): x / q to the nearest integer, a tie to the even one
RoundHalfEven(x, q) ==
    LET floorq == Abs(x) \div q
        remq == Abs(x) % q
        roundq == IF 2 * remq > q \/ (2 * remq = q /\ floorq % 2 = 1)
                  THEN floorq + 1 ELSE floorq
    IN Sign(x) * roundq

(***************************************************************************)
(* CORDIC: atan(2^-i) in urad, the gain K = 1.6467602581.                  *)
(***************************************************************************)
CordicAtan ==
    <<78539816, 46364761, 24497866, 12435499, 6241881, 3123983, 1562373,
      781234, 390623, 195312, 97656, 48828, 24414, 12207, 6104, 3052, 1526,
      763, 381, 191, 95, 48, 24, 12, 6, 3, 1>>
CordicSteps == Len(CordicAtan)
\* 2^29 / K, and 2^30 / K
CordicX0 == 326016437
CordicInvK == 652032874
PiUrad == 314159265
HalfPiUrad == 157079633
\* pi / 180 * 100 - 1 (urad per udeg, less one) and 180 / pi / 100 (udeg per
\* urad), both times 2^30
Deg2RadFrac == 800291191
Rad2DegMul == 615208748

RECURSIVE CordicRotate(_, _)
\* rotate v = <<x, y>> by the angle v[3] (urad), step i onwards
CordicRotate(v, i) ==
    IF i > CordicSteps THEN v
    ELSE IF v[3] >= 0
         THEN CordicRotate(<<v[1] - v[2] \div (2 ^ (i - 1)),
                            v[2] + v[1] \div (2 ^ (i - 1)),
                            v[3] - CordicAtan[i]>>, i + 1)
         ELSE CordicRotate(<<v[1] + v[2] \div (2 ^ (i - 1)),
                            v[2] - v[1] \div (2 ^ (i - 1)),
                            v[3] + CordicAtan[i]>>, i + 1)

RECURSIVE CordicVector(_, _)
\* rotate v = <<x, y>>, x > 0, onto the x axis, adding the angle to v[3]:
\* <<K * modulus, 0, angle in urad>>
CordicVector(v, i) ==
    IF i > CordicSteps THEN v
    ELSE IF v[2] >= 0
         THEN CordicVector(<<v[1] + v[2] \div (2 ^ (i - 1)),
                            v[2] - v[1] \div (2 ^ (i - 1)),
                            v[3] + CordicAtan[i]>>, i + 1)
         ELSE CordicVector(<<v[1] - v[2] \div (2 ^ (i - 1)),
                            v[2] + v[1] \div (2 ^ (i - 1)),
                            v[3] - CordicAtan[i]>>, i + 1)

\* <<cos, sin>> (scale S) of an angle in [0, pi/2] urad
CosSinQuadrant(theta) ==
    IF theta = 0 THEN <<S, 0>>
    ELSE LET rotated == CordicRotate(<<CordicX0, 0, theta>>, 1)
         IN <<(rotated[1] + 2 ^ 8) \div 2 ^ 9, (rotated[2] + 2 ^ 8) \div 2 ^ 9>>

\* np.deg2rad on [0, 90] degrees: udeg to urad
deg2rad(d) == d + Mul30(d, Deg2RadFrac)

\* np.rad2deg on [-pi, pi]: urad to udeg
rad2deg(r) == Sign(r) * Mul30(Abs(r), Rad2DegMul)

\* <<v[2], v[1]>>: the mirror image in the diagonal
Swap(v) == <<v[2], v[1]>>

\* v turned by a number of quarter turns
QuarterTurns(v, quadrant) ==
    CASE quadrant = 0 -> v
      [] quadrant = 1 -> <<-v[2], v[1]>>
      [] quadrant = 2 -> <<-v[1], -v[2]>>
      [] OTHER -> <<v[2], -v[1]>>

\* <<cos, sin>> (scale S) of an angle in [0, 90] degrees, in udeg
CosSinOctant(resid) ==
    IF resid <= 45 * UdegPerDeg
    THEN CosSinQuadrant(deg2rad(resid))
    ELSE Swap(CosSinQuadrant(deg2rad(90 * UdegPerDeg - resid)))

\* a variant that counts the quarter turns without reducing the bearing to
\* one full turn
unit_vector_unwrapped(b) ==
    QuarterTurns(CosSinOctant(b % (90 * UdegPerDeg)), b \div (90 * UdegPerDeg))

\* np.exp(1j * np.deg2rad(b)): <<cos, sin>> (scale S) of a bearing in udeg
UnitVector(b) ==
    QuarterTurns(CosSinOctant((b % (360 * UdegPerDeg))
                                 % (90 * UdegPerDeg)),
                 (b % (360 * UdegPerDeg))
                     \div (90 * UdegPerDeg))

\* the image of v in the east axis
Reflect(v) == <<-v[1], v[2]>>

\* <<cos, sin>> (scale S) of an angle in [0, pi] urad
CosSinUpper(r) ==
    IF r <= HalfPiUrad THEN CosSinQuadrant(r)
    ELSE Reflect(CosSinQuadrant(PiUrad - r))

\* the image of v in the north axis when r < 0
Conjugate(v, r) == <<v[1], Sign(r) * v[2]>>

\* np.cos, np.sin of an angle in (-pi, pi] urad: <<cos, sin>> (scale S)
CosSinRad(r) == Conjugate(CosSinUpper(Abs(r)), r)

RECURSIVE NormShift(_, _)
\* k with 2^27 <= m * 2^k < 2^28 (k may be negative), for m > 0
NormShift(m, k) ==
    IF m >= 2 ^ 28 THEN NormShift(m \div 2, k - 1)
    ELSE IF m < 2 ^ 27 THEN NormShift(m * 2, k + 1)
    ELSE k

Scale2(x, k) == IF k >= 0 THEN x * 2 ^ k ELSE x \div 2 ^ (-k)

\* the start of the vectoring of x, y >= 0: the pair in the first octant,
\* and whether it was mirrored to get there
FirstOctant(x, y) ==
    IF x >= y THEN [v |-> <<x, y, 0>>, mirrored |-> FALSE]
    ELSE [v |-> <<y, x, 0>>, mirrored |-> TRUE]

\* the modulus and the angle of z from the vectoring vec of its first-octant
\* image, which was scaled by 2^shift
PolarOf(z, shift, mirrored, vec) ==
    LET ang1 == IF mirrored THEN HalfPiUrad - vec[3] ELSE vec[3]
        ang2 == IF z[1] < 0 THEN PiUrad - ang1 ELSE ang1
        modK == Mul30(vec[1], CordicInvK)
    IN <<IF shift >= 0 THEN RoundHalfEven(modK, 2 ^ shift)
         ELSE modK * 2 ^ (-shift),
         IF z[2] < 0 THEN -ang2 ELSE ang2>>

PolarFrom(z, shift, start) ==
    PolarOf(z, shift, start.mirrored, CordicVector(start.v, 1))

PolarScaled(z, shift) ==
    PolarFrom(z, shift,
              FirstOctant(Scale2(Abs(z[1]), shift), Scale2(Abs(z[2]), shift)))

\* <<np.abs(z), np.angle(z)>> of z = <<x, y>> (x along north: bearing 0):
\* the modulus in the unit of x and y, the angle in urad in (-pi, pi]
Polar(z) ==
    IF z[1] = 0 /\ z[2] = 0 THEN <<0, 0>>
    ELSE PolarScaled(z, NormShift(IF Abs(z[1]) > Abs(z[2])
                                  THEN Abs(z[1]) ELSE Abs(z[2]), 0))

(***************************************************************************)
(* bearing.py: get_bearing_summary_stats.  bearings are in udeg, the       *)
(* magnitudes in grid units.                                               *)
(***************************************************************************)
One == 10 ^ OutDigits
\* round(v, 7) of a value of scale S, in grid units
RoundGrid(v) == RoundHalfEven(v * One, S)
Deg(d) == d * UdegPerDeg

\* np.ones_like(bearings, dtype=np.float64)
ones_like(bs) == [j \in 1..Len(bs) |-> One]

\* sum(...) of a sequence of numbers
RECURSIVE SumFrom(_, _)
SumFrom(s, k) == IF k > Len(s) THEN 0 ELSE s[k] + SumFrom(s, k + 1)
SumSeq(s) == SumFrom(np_array(s), 1)

\* np.exp(1j * np.deg2rad(bearings))
unit_vectors(bs) == np_array([j \in 1..Len(bs) |-> UnitVector(bs[j])])

\* sum(net_magnitudes * vectors), in V units: <<real part (north),
\* imaginary part (east)>>
weighted_sum(ns, vectors) ==
    <<SumSeq([j \in 1..Len(vectors) |-> ns[j] * vectors[j][1]]),
      SumSeq([j \in 1..Len(vectors) |-> ns[j] * vectors[j][2]])>>

\* a variant that leaves the net magnitudes out of the vector sum
total_complex_unweighted(bs, ns) == weighted_sum(ones_like(bs), unit_vectors(bs))

\* sum(net_magnitudes * np.exp(1j * np.deg2rad(bearings)))
total_complex_of(bs, ns) == weighted_sum(ns, unit_vectors(bs))

\* a variant whose fallback is a full alignment
alignment_else_one(n, c) ==
    IF c * 10 ^ EpsDigits > 10 ^ OutDigits THEN RoundHalfEven(n, c) ELSE S

\* alignment = net_magnitude / cum_magnitude if cum_magnitude > 1e-10 else 0.0
\* (scale S; net_magnitude in V units, cum_magnitude in grid units: the
\* guard is cum_magnitude * 10^-OutDigits > 10^-EpsDigits)
alignment_of(n, c) ==
    IF c * 10 ^ EpsDigits > 10 ^ OutDigits THEN RoundHalfEven(n, c) ELSE 0

\* mean_bearing_rad = np.angle(total_complex) if net_magnitude > 1e-10 else 0.0
mean_bearing_rad_of(p) == IF p[1] > EpsV THEN p[2] ELSE 0

\* np.rad2deg(np.round(mean_bearing_rad, 10)) % 360, in udeg
mean_bearing_deg_of(r) ==
    rad2deg(RoundHalfEven(r, GridRad) * GridRad) % Deg(360)

\* a variant that does not negate in the south
poleward_affinity_unsigned(h, a, r) ==
    IF h = "north" \/ h = "south" THEN FixMul(a, CosSinRad(r)[1]) ELSE NULL

\* the branches on hemisphere, bearing.py:290-297 (scale S, or NULL)
poleward_affinity_of(h, a, r) ==
    IF h = "north" THEN FixMul(a, CosSinRad(r)[1])
    ELSE IF h = "south" THEN FixMul(-a, CosSinRad(r)[1])
    ELSE NULL

\* eastward_affinity = alignment * np.sin(mean_bearing_rad)
eastward_affinity_of(a, r) ==
    FixMul(a, CosSinRad(r)[2])

\* the Field constraints of BearingStatsModel (models.py), checked by the
\* constructor; a null field passes
BearingStatsModelValid(m) ==
    /\ m.bearing_mean >= 0 /\ m.bearing_mean < 360 * One
    /\ m.bearing_alignment >= 0 /\ m.bearing_alignment <= One
    /\ m.poleward_affinity # NULL =>
          (m.poleward_affinity >= -One /\ m.poleward_affinity <= One)
    /\ m.eastward_affinity >= -One /\ m.eastward_affinity <= One

\* BearingStatsModel(...): the call returns the model, or raises
BearingStatsModel(m) ==
    IF BearingStatsModelValid(m) THEN [raised |-> None, model |-> m]
    ELSE [raised |-> "ValidationError", model |-> m]

\* round(value + 0, 7) if value is not None else None
round_optional(v) == IF v # NULL THEN RoundGrid(v) ELSE NULL

\* lines 288-310: the affinities and the rounded fields of the model
rounded_model(net_magnitude, cum_magnitude, alignment, mean_bearing_rad, h) ==
    BearingStatsModel(
        [bearing_mean |->
             RoundHalfEven(mean_bearing_deg_of(mean_bearing_rad), GridDeg),
         bearing_alignment |-> RoundGrid(alignment),
         poleward_affinity |->
             round_optional(poleward_affinity_of(h, alignment, mean_bearing_rad)),
         eastward_affinity |->
             RoundGrid(eastward_affinity_of(alignment, mean_bearing_rad)),
         bearing_magnitude_net |-> RoundHalfEven(net_magnitude, S),
         bearing_magnitude_cum |-> cum_magnitude])

\* lines 285-287: net_magnitude, alignment and mean_bearing_rad from
\* polar = <<np.abs(total_complex), np.angle(total_complex)>>
polar_summary(polar, cum_magnitude, h) ==
    rounded_model(polar[1], cum_magnitude, alignment_of(polar[1], cum_magnitude),
                  mean_bearing_rad_of(polar), h)

\* a variant that leaves the segments without net magnitude out of the
\* cumulative magnitude
bearing_summary_net_segments(bs, ns, cs, h) ==
    polar_summary(Polar(total_complex_of(bs, ns)),
                  SumSeq([j \in 1..Len(cs) |-> IF ns[j] = 0 THEN 0 ELSE cs[j]]), h)

\* lines 281-310, after the defaults and the shape assertion
bearing_summary(bs, ns, cs, h) ==
    polar_summary(Polar(total_complex_of(bs, ns)), SumSeq(cs), h)

NoModel ==
    [bearing_mean |-> NULL, bearing_alignment |-> NULL, poleward_affinity |-> NULL,
     eastward_affinity |-> NULL, bearing_magnitude_net |-> NULL,
     bearing_magnitude_cum |-> NULL]

\* a variant whose default is an array of zeros
magnitudes_or_zeros(ms, bs) ==
    IF ms = Omitted THEN [j \in 1..Len(bs) |-> 0] ELSE ms[1]

\* "if magnitudes is None: magnitudes = np.ones_like(bearings)"
magnitudes_array(ms, bs) == IF ms = Omitted THEN ones_like(bs) ELSE ms[1]

\* a variant that compares the shape of the net magnitudes only
shapes_equal_net_only(bs, ns, cs) == Len(bs) = Len(ns)

\* assert bearings.shape == net_magnitudes.shape == cum_magnitudes.shape
shapes_equal(bs, ns, cs) == Len(bs) = Len(ns) /\ Len(ns) = Len(cs)

\* lines 279-310
asserted_summary(bs, ns, cs, h) ==
    IF ~shapes_equal(bs, ns, cs)
    THEN [raised |-> "AssertionError", model |-> NoModel]
    ELSE bearing_summary(bs, ns, cs, h)

\* a variant whose cumulative magnitudes default to the net magnitudes
summary_stats_cum_as_net(bearings, net_magnitudes, cum_magnitudes, hemisphere) ==
    asserted_summary(bearings, magnitudes_array(net_magnitudes, bearings),
                     magnitudes_array(IF cum_magnitudes = Omitted
                                      THEN net_magnitudes ELSE cum_magnitudes,
                                      bearings),
                     hemisphere)

get_bearing_summary_stats(bearings, net_magnitudes, cum_magnitudes, hemisphere) ==
    asserted_summary(bearings, magnitudes_array(net_magnitudes, bearings),
                     magnitudes_array(cum_magnitudes, bearings), hemisphere)

(***************************************************************************)
(* bearing.py: get_bearing_histogram.  A histogram is a sequence of rows   *)
(* [num_bins, bin_index, bin_center, bin_count, bin_proportion]; the       *)
(* centers are in udeg, the counts in grid units, the proportions of       *)
(* scale S (or NAN).                                                       *)
(***************************************************************************)
\* bins = [2, 4, 8, 32]
BearingBins == <<2, 4, 8, 32>>

\* n / d of scale S, for 0 <= n <= d < 2^21 and d > 0: float division
Ratio(n, d) ==
    ((n * 2 ^ 10) \div d) * 2 ^ 10 + ((((n * 2 ^ 10) % d) * 2 ^ 10) \div d)

\* a variant whose bins are closed on the right
split_bin_right_closed(b, n) ==
    IF b = NULL \/ b < 0 \/ b > Deg(360) THEN 0
    ELSE IF b = 0 THEN 1
    ELSE (b - 1) \div (Deg(360) \div n) + 1

\* np.histogram: the bin, of n bins of equal width over [0, 360] with the
\* last one closed, that holds the bearing b; 0 when none does (a bearing
\* outside [0, 360], or NaN)
split_bin_of(b, n) ==
    IF b = NULL \/ b < 0 \/ b > Deg(360) THEN 0
    ELSE IF b = Deg(360) THEN n
    ELSE b \div (Deg(360) \div n) + 1

RECURSIVE histogram_add(_, _, _, _)
\* the counts with the weights of the bearings j, j + 1, ... added
histogram_add(counts, bearings, weights, j) ==
    IF j > Len(bearings) THEN counts
    ELSE LET bin == split_bin_of(bearings[j], Len(counts))
         IN IF bin = 0 THEN histogram_add(counts, bearings, weights, j + 1)
            ELSE histogram_add([counts EXCEPT ![bin] = @ + weights[j]],
                               bearings, weights, j + 1)

\* np.histogram(bearings, bins=split_bin_edges, weights=weights)[0]
np_histogram(bearings, weights, n) ==
    histogram_add(np_array([k \in 1..n |-> 0]), bearings, weights, 1)

\* a variant that shifts the counts by one and drops the last
shift_no_wrap(counts) ==
    np_array([k \in 1..Len(counts) |-> IF k = 1 THEN 0 ELSE counts[k - 1]])

\* np.roll(split_bin_counts, 1)
np_roll(counts) ==
    np_array([k \in 1..Len(counts) |->
                 counts[IF k = 1 THEN Len(counts) ELSE k - 1]])

\* split_bin_counts[::2] + split_bin_counts[1::2]
merge_pairs(counts) ==
    np_array([i \in 1..(Len(counts) \div 2) |->
                 counts[2 * i - 1] + counts[2 * i]])

\* split_bin_edges[range(0, num_split_bins - 1, 2)], in udeg
bin_center_of(i, num_bins) == (i - 1) * (Deg(360) \div num_bins)

\* pl.col("bin_count") / pl.sum("bin_count"): 0 / 0 is NaN
bin_proportion_of(count, total) ==
    IF total = 0 THEN NAN ELSE Ratio(count, total)

\* the DataFrame of the bin_counts, with its derived columns
bin_rows(bin_counts, num_bins) ==
    LET bin_total == SumSeq(bin_counts)
    IN np_array([i \in 1..num_bins |->
           [num_bins |-> num_bins,
            bin_index |-> i,
            bin_center |-> bin_center_of(i, num_bins),
            bin_count |-> bin_counts[i],
            bin_proportion |-> bin_proportion_of(bin_counts[i], bin_total)]])

\* the rows of get_bearing_histogram, once np.histogram accepted the arrays
histogram_rows(bearings, weights, num_bins) ==
    bin_rows(merge_pairs(np_roll(np_histogram(bearings, weights, num_bins * 2))),
             num_bins)

\* np.histogram raises ValueError when the weights have another shape
get_bearing_histogram(bearings, weights, num_bins) ==
    IF Len(bearings) # Len(weights)
    THEN [raised |-> "ValueError", rows |-> <<>>]
    ELSE [raised |-> None, rows |-> histogram_rows(bearings, weights, num_bins)]

RECURSIVE concat_histograms(_, _, _)
\* pl.concat([get_bearing_histogram(...) for num_bins in bins]), from bins[i] on
concat_histograms(bearings, weights, i) ==
    IF i > Len(BearingBins) THEN <<>>
    ELSE histogram_rows(bearings, weights, BearingBins[i])
         \o concat_histograms(bearings, weights, i + 1)

get_bearing_histogram_df(bearings, weights) ==
    IF Len(bearings) # Len(weights)
    THEN [raised |-> "ValueError", rows |-> <<>>]
    ELSE [raised |-> None, rows |-> concat_histograms(bearings, weights, 1)]

(***************************************************************************)
(* analyze.py.  A coordinate row of a run is [bearing, distance_vertical_  *)
(* drop, latitude]: the first coordinate of a run has no segment behind    *)
(* it, so its bearing and its drop are null (add_spatial_metric_columns).  *)
(***************************************************************************)
\* hemisphere = when(latitude > 0) then "north" otherwise "south"
hemisphere_of(latitude) == IF latitude > 0 THEN "north" ELSE "south"

\* .drop_nulls(): the rows of the struct with no null field
drop_nulls(struct_series) ==
    SelectSeq(struct_series,
              LAMBDA r : /\ r.bearing # NULL
                         /\ r.bearing_magnitude_net # NULL
                         /\ r.bearing_magnitude_cum # NULL
                         /\ r.hemisphere # None)

\* a variant that takes the hemisphere of the first row
first_hemisphere(df) == IF df = <<>> THEN None ELSE df[1].hemisphere

\* (hemisphere,) = df.get_column("hemisphere").unique(), None on ValueError
unique_hemisphere(df) ==
    LET present == {df[j].hemisphere : j \in 1..Len(df)}
    IN IF Cardinality(present) = 1 THEN CHOOSE h \in present : TRUE ELSE None

\* get_bearing_summary_stats on the columns of df
summary_stats_of(df) ==
    get_bearing_summary_stats(
        np_array([j \in 1..Len(df) |-> df[j].bearing]),
        Given(np_array([j \in 1..Len(df) |-> df[j].bearing_magnitude_net])),
        Given(np_array([j \in 1..Len(df) |-> df[j].bearing_magnitude_cum])),
        unique_hemisphere(df))

\* _get_bearing_summary_stats_pl
get_bearing_summary_stats_pl(struct_series) ==
    summary_stats_of(drop_nulls(struct_series))

\* the struct that analyze_all_ski_areas_polars hands to the statistics: the
\* vertical drop is both the net and the cumulative magnitude
run_struct(coordinates) ==
    np_array([j \in 1..Len(coordinates) |->
        [bearing |-> coordinates[j].bearing,
         bearing_magnitude_net |-> coordinates[j].distance_vertical_drop,
         bearing_magnitude_cum |-> coordinates[j].distance_vertical_drop,
         hemisphere |-> hemisphere_of(coordinates[j].latitude)]])

\* the columns a ski area without runs gets from the left join
NoBearings == <<>>
no_run_metrics(ski_area) ==
    [ski_area_id |-> ski_area.ski_area_id,
     runConvention |-> ski_area.runConvention,
     region |-> ski_area.region, run_count |-> NULL,
     combined_vertical |-> NULL, hemisphere |-> None, stats |-> NoModel,
     bearings |-> NoBearings]

\* the row of ski_area_metrics_df of one ski area: its group_by + agg, the
\* unnest of _bearing_stats and the left join onto the ski areas; raised is
\* the exception of the statistics, if any
run_metrics(ski_area, counts, hemisphere, bearing_stats, histograms) ==
    [raised |-> bearing_stats.raised,
     row |-> [ski_area_id |-> ski_area.ski_area_id,
              runConvention |-> ski_area.runConvention,
              region |-> ski_area.region,
              run_count |-> counts.run_count,
              combined_vertical |-> counts.combined_vertical,
              hemisphere |-> hemisphere,
              stats |-> bearing_stats.model,
              bearings |-> histograms.rows]]

\* the histograms of the segments of a ski area, weighted by vertical drop
run_histograms(coordinates) ==
    get_bearing_histogram_df(
        np_array([j \in 1..Len(coordinates) |-> coordinates[j].bearing]),
        np_array([j \in 1..Len(coordinates) |->
                     coordinates[j].distance_vertical_drop]))

\* a variant that gives a run to the first ski area it lists only
lists_first(run, ski_area_id) ==
    run.ski_area_ids # <<>> /\ run.ski_area_ids[1] = ski_area_id

\* .explode("ski_area_ids"): the run has a row with the ski_area_id
lists_ski_area(run, ski_area_id) ==
    \E k \in 1..Len(run.ski_area_ids) : run.ski_area_ids[k] = ski_area_id

\* the runs whose rows fall in the group of the ski area: the downhill runs
\* that list it (a run that lists no ski area explodes to a null
\* ski_area_id, which the filter removes)
ski_area_runs(runs_df, ski_area_id) ==
    SelectSeq(runs_df,
              LAMBDA run : /\ "downhill" \in run.run_uses
                           /\ lists_ski_area(run, ski_area_id))

\* .explode("run_coordinates_clean").unnest(...) of one run: its coordinate
\* rows, or one row of nulls for an empty list
coordinate_rows(run) ==
    IF run.run_coordinates_clean = <<>>
    THEN <<[bearing |-> NULL, distance_vertical_drop |-> NULL, latitude |-> NULL]>>
    ELSE run.run_coordinates_clean

RECURSIVE ski_area_coordinates(_, _)
\* the coordinate rows of the runs r, r + 1, ... of a ski area
ski_area_coordinates(ski_runs, r) ==
    IF r > Len(ski_runs) THEN <<>>
    ELSE coordinate_rows(ski_runs[r]) \o ski_area_coordinates(ski_runs, r + 1)

\* run_count = n_unique(run_id), combined_vertical = sum of
\* distance_vertical_drop, which skips the nulls
run_counts(ski_runs, coordinates) ==
    [run_count |-> Cardinality({ski_runs[r].run_id : r \in 1..Len(ski_runs)}),
     combined_vertical |->
         SumSeq([j \in 1..Len(coordinates) |->
                    IF coordinates[j].distance_vertical_drop = NULL THEN 0
                    ELSE coordinates[j].distance_vertical_drop])]

ski_area_metrics_row(ski_area, ski_runs, coordinates) ==
    IF coordinates = <<>>
    THEN [raised |-> None, row |-> no_run_metrics(ski_area)]
    ELSE run_metrics(ski_area, run_counts(ski_runs, coordinates),
                     hemisphere_of(coordinates[1].latitude),
                     get_bearing_summary_stats_pl(run_struct(coordinates)),
                     run_histograms(coordinates))

\* the row of a ski area, given its runs
ski_area_metrics_of(ski_area, ski_runs) ==
    ski_area_metrics_row(ski_area, ski_runs, ski_area_coordinates(ski_runs, 1))

\* the rows of the outcomes, or the exception of the first that raised
rows_or_raise(analyzed) ==
    LET failed == {a \in 1..Len(analyzed) : analyzed[a].raised # None}
    IN IF failed # {}
       THEN [raised |-> analyzed[CHOOSE a \in failed : \A b \in failed : a <= b].raised,
             rows |-> <<>>]
       ELSE [raised |-> None,
             rows |-> np_array([a \in 1..Len(analyzed) |-> analyzed[a].row])]

\* analyze_all_ski_areas_polars: the row of every ski area, or the exception
\* of the statistics of one of them
analyze_all_ski_areas_polars(ski_area_df, runs_df) ==
    rows_or_raise(np_array([a \in 1..Len(ski_area_df) |->
        ski_area_metrics_of(ski_area_df[a],
            ski_area_runs(runs_df, ski_area_df[a].ski_area_id))]))

\* the Literal of runConvention of SkiAreaModel (models.py)
RunConventions == {"japan", "europe", "north_america"}

\* SkiAreaModel.validate(ski_area_metrics_df): the Field constraints of the
\* columns of the table, ski_area_id unique; a null statistic passes
SkiAreaModel_validate(table) ==
    /\ \A a, b \in 1..Len(table) :
          table[a].ski_area_id = table[b].ski_area_id => a = b
    /\ \A a \in 1..Len(table) :
          /\ table[a].runConvention \in RunConventions
          /\ table[a].hemisphere \in {"north", "south", None}
          /\ table[a].stats # NoModel => BearingStatsModelValid(table[a].stats)

\* a variant that lets the DataFrameValidationError through
validate_or_raise(table) ==
    IF SkiAreaModel_validate(table)
    THEN [raised |-> None, logged |-> <<>>]
    ELSE [raised |-> "DataFrameValidationError", logged |-> <<>>]

\* try: SkiAreaModel.validate(...) except DataFrameValidationError:
\* logging.error(...): the exception raised and the errors logged
validate_and_log(table) ==
    [raised |-> None,
     logged |-> IF SkiAreaModel_validate(table) THEN <<>>
                ELSE <<"SkiAreaModel.validate failed">>]

\* the rows of a table (a function on 1..n) of a group, in table order
group_rows(table, group) ==
    SelectSeq([a \in 1..Len(table) |-> table[a]],
              LAMBDA row : row.region = group)

\* the keys of .group_by(*group_by)
group_keys(table) == {table[a].region : a \in 1..Len(table)}

\* the regions in the order .sort() puts them
RegionsAscending == <<"r1", "r2">>

RECURSIVE group_by_order(_, _)
\* the keys in the order .group_by(*group_by) hands its groups on, which is
\* that of their first row: the keys of the rows a, a - 1, ... 1
group_by_order(table, a) ==
    IF a = 0 THEN <<>>
    ELSE LET before == group_by_order(table, a - 1)
         IN IF \E k \in 1..Len(before) : before[k] = table[a].region
            THEN before ELSE Append(before, table[a].region)

\* a variant that leaves the keys in the order of the group_by
unsorted_keys(keys) == keys

\* .sort(*group_by): the keys in ascending order
sort_keys(keys) ==
    SelectSeq(RegionsAscending,
              LAMBDA region : \E k \in 1..Len(keys) : keys[k] = region)

\* the struct aggregate_ski_areas_pl hands to the statistics: the mean
\* bearing of a ski area (in grid units, so in udeg again) as its bearing
ski_area_struct(rows) ==
    np_array([j \in 1..Len(rows) |->
        [bearing |-> IF rows[j].stats.bearing_mean = NULL THEN NULL
                     ELSE rows[j].stats.bearing_mean * GridDeg,
         bearing_magnitude_net |-> rows[j].stats.bearing_magnitude_net,
         bearing_magnitude_cum |-> rows[j].stats.bearing_magnitude_cum,
         hemisphere |-> rows[j].hemisphere]])

\* .explode("bearings").filter(pl.col("bearings").is_not_null()): the
\* histograms of the ski areas of a group that have one
exploded_bearings(rows) ==
    SelectSeq([j \in 1..Len(rows) |-> rows[j].bearings],
              LAMBDA bearings : bearings # NoBearings)

\* a variant that takes the first bin_count of a group instead of the sum
first_bin_count(histograms, i) == histograms[1][i].bin_count

\* bin_count = pl.sum("bin_count") of a (group, num_bins, bin_index): every
\* histogram holds the keys in the same order, so a key is a position i
sum_bin_count(histograms, i) ==
    SumSeq([m \in 1..Len(histograms) |-> histograms[m][i].bin_count])

\* a variant without the guard on the total
unguarded_bin_proportion(count, total) ==
    IF total = 0 THEN NAN ELSE Ratio(count, total)

\* when(bin_count_total > 0).then(bin_count / bin_count_total).otherwise(0.0)
aggregated_bin_proportion(count, total) ==
    IF total > 0 THEN Ratio(count, total) ELSE 0

RECURSIVE insert_sorted(_, _)
\* a row put into rows sorted by (num_bins, bin_center)
insert_sorted(rows, row) ==
    IF rows = <<>> THEN <<row>>
    ELSE LET last == rows[Len(rows)]
         IN IF \/ last.num_bins < row.num_bins
               \/ (last.num_bins = row.num_bins /\ last.bin_center <= row.bin_center)
            THEN Append(rows, row)
            ELSE Append(insert_sorted(SubSeq(rows, 1, Len(rows) - 1), row), last)

RECURSIVE sort_rows(_, _)
\* .sort(*group_by, "num_bins", "bin_center") within a group: rows[1..n]
sort_rows(rows, n) ==
    IF n = 0 THEN <<>> ELSE insert_sorted(sort_rows(rows, n - 1), rows[n])

\* aggregate_ski_area_bearing_dists_pl for one group with histograms
group_bearing_dists(histograms) ==
    LET keys == histograms[1]
        bin_counts == np_array([i \in 1..Len(keys) |-> sum_bin_count(histograms, i)])
        resolutions == {keys[i].num_bins : i \in 1..Len(keys)}
        bin_count_total ==
            [n \in resolutions |->
                SumSeq([i \in 1..Len(keys) |->
                           IF keys[i].num_bins = n THEN bin_counts[i] ELSE 0])]
        rows == np_array([i \in 1..Len(keys) |->
                    [num_bins |-> keys[i].num_bins,
                     bin_index |-> keys[i].bin_index,
                     bin_center |-> keys[i].bin_center,
                     bin_count |-> bin_counts[i],
                     bin_proportion |->
                         aggregated_bin_proportion(bin_counts[i],
                             bin_count_total[keys[i].num_bins])]])
    IN sort_rows(rows, Len(rows))

\* aggregate_ski_area_bearing_dists_pl: the groups that have a histogram
aggregate_ski_area_bearing_dists_pl(table) ==
    LET with_bearings ==
            {g \in group_keys(table) : exploded_bearings(group_rows(table, g)) # <<>>}
    IN [g \in with_bearings |->
           group_bearing_dists(exploded_bearings(group_rows(table, g)))]

\* pl.sum(column) of the rows of a group, which skips the nulls
sum_column(rows, column) ==
    SumSeq([a \in 1..Len(rows) |->
               IF rows[a][column] = NULL THEN 0 ELSE rows[a][column]])

\* the rows of the groups of keys, in that order: the aggregates of the
\* group, its statistics and, from the join, its histograms
joined_groups(keys, table, bearing_stats, bearings_pl) ==
    np_array([k \in 1..Len(keys) |->
                 [region |-> keys[k],
                  ski_areas_count |-> Len(group_rows(table, keys[k])),
                  run_count |-> sum_column(group_rows(table, keys[k]), "run_count"),
                  combined_vertical |->
                      sum_column(group_rows(table, keys[k]), "combined_vertical"),
                  stats |-> bearing_stats[keys[k]].model,
                  bearings |-> bearings_pl[keys[k]]]])

\* aggregate_ski_areas_pl: the statistics of every group, then the inner
\* join with the histograms and the sort by the key; raised is the
\* exception of the statistics
aggregate_ski_areas_pl(table) ==
    LET bearings_pl == aggregate_ski_area_bearing_dists_pl(table)
        bearing_stats ==
            [g \in group_keys(table) |->
                get_bearing_summary_stats_pl(ski_area_struct(group_rows(table, g)))]
        failed == {g \in group_keys(table) : bearing_stats[g].raised # None}
    IN IF failed # {}
       THEN [raised |-> bearing_stats[CHOOSE g \in failed : TRUE].raised,
             rows |-> <<>>]
       ELSE [raised |-> None,
             rows |-> joined_groups(
                          sort_keys(SelectSeq(group_by_order(table, Len(table)),
                                              LAMBDA g : g \in DOMAIN bearings_pl)),
                          table, bearing_stats, bearings_pl)]

(***************************************************************************)
(* The state.  pc is the position of the program; args and result are the  *)
(* arguments and the outcome of a direct call of a function of bearing.py. *)
(***************************************************************************)
\* runs and ski_areas are the tables the pipeline loads, ski_area_metrics,
\* groups and bearing_dists the tables it derives.  log is the errors
\* logged, roses the files of the rose directories and futures the futures
\* of the tasks of the worker pool.
VARIABLES pc, args, result, runs, ski_areas, ski_area_metrics, groups,
          bearing_dists, log, roses, futures

vars == <<pc, args, result, runs, ski_areas, ski_area_metrics, groups,
          bearing_dists, log, roses, futures>>
tables == <<runs, ski_areas, ski_area_metrics, groups, bearing_dists>>

NoTable == <<>>
NoTables ==
    /\ runs = NoTable /\ ski_areas = NoTable /\ ski_area_metrics = NoTable
    /\ groups = NoTable /\ bearing_dists = NoTable

\* nothing logged, no rose file and no task
NoFiles == {}
outputs == <<log, roses, futures>>
NoOutputs == log = <<>> /\ roses = NoFiles /\ futures = <<>>

\* sequences over a set, up to a length
SeqsUpTo(set, n) == UNION {[1..len -> set] : len \in 0..n}

(***************************************************************************)
(* Calls of get_bearing_summary_stats.                                     *)
(***************************************************************************)
\* the longest array of bearings
MaxLen == 2

\* a bearing a fifth of a grid unit short of a full turn
NearTurn == Deg(360) - GridDeg \div 5
BearingValues == {0, Deg(90), Deg(180), NearTurn, Deg(360)}
MagnitudeValues == {0, One, 2 * One}
Hemispheres == {"north", "south", None}
\* the net magnitudes a call may pass with the bearings bs: none, one per
\* bearing, or an array that is one too long
NetMagnitudes(bs) ==
    {Omitted} \cup {Given(ms) : ms \in [1..Len(bs) -> MagnitudeValues]}
              \cup {Given([j \in 1..(Len(bs) + 1) |-> One])}
\* the cumulative magnitudes it may pass with them: none, zeros, twos, the
\* net magnitudes ns again, or an array that is one too long
CumMagnitudes(bs, ns) ==
    {Omitted, ns, Given([j \in 1..Len(bs) |-> 0]),
     Given([j \in 1..Len(bs) |-> 2 * One]),
     Given([j \in 1..(Len(bs) + 1) |-> One])}

NoResult == [raised |-> None, model |-> NoModel]

InitStats ==
    /\ pc = "call"
    /\ \E bs \in SeqsUpTo(BearingValues, MaxLen) :
          \E ns \in NetMagnitudes(bs) :
             \E cs \in CumMagnitudes(bs, ns), h \in Hemispheres :
                args = [bearings |-> bs, net_magnitudes |-> ns,
                        cum_magnitudes |-> cs, hemisphere |-> h]
    /\ result = NoResult
    /\ NoTables /\ NoOutputs

CallSummaryStats ==
    /\ pc = "call"
    /\ result' = get_bearing_summary_stats(args.bearings, args.net_magnitudes,
                                           args.cum_magnitudes, args.hemisphere)
    /\ pc' = "done"
    /\ UNCHANGED <<args, tables, outputs>>

NextStats == CallSummaryStats

SpecStats == InitStats /\ [][NextStats]_vars

(***************************************************************************)
(* Calls of get_bearing_histogram and get_bearing_histogram_df.            *)
(***************************************************************************)
\* a bearing on an edge of the narrowest split bins, and one past the turn
SplitEdge == Deg(360) \div (2 * BearingBins[Len(BearingBins)])
HistogramBearingValues ==
    {0, Deg(360) - NearTurn, SplitEdge, Deg(90), Deg(180) + 1, NearTurn,
     Deg(360), Deg(405)}
\* the weights a call may pass with the bearings bs: one per bearing, or an
\* array that is one too long
Weights(bs) ==
    [1..Len(bs) -> MagnitudeValues] \cup {[j \in 1..(Len(bs) + 1) |-> One]}

NoHistogramResult == [raised |-> None, rows |-> <<>>]

InitHistogram ==
    /\ pc = "call"
    /\ \E bs \in SeqsUpTo(HistogramBearingValues, MaxLen) :
          \E ws \in Weights(bs) : args = [bearings |-> bs, weights |-> ws]
    /\ result = NoHistogramResult
    /\ NoTables /\ NoOutputs

CallHistogram ==
    /\ pc = "call"
    /\ \E i \in 1..Len(BearingBins) :
          result' = get_bearing_histogram(args.bearings, args.weights,
                                          BearingBins[i])
    /\ pc' = "done"
    /\ UNCHANGED <<args, tables, outputs>>

CallHistogramDf ==
    /\ pc = "call"
    /\ result' = get_bearing_histogram_df(args.bearings, args.weights)
    /\ pc' = "done"
    /\ UNCHANGED <<args, tables, outputs>>

NextHistogram == CallHistogram \/ CallHistogramDf

SpecHistogram == InitHistogram /\ [][NextHistogram]_vars

(***************************************************************************)
(* The pipeline: analyze_all_ski_areas_polars, then the aggregations.      *)
(***************************************************************************)
\* the most coordinate rows of the runs table
MaxCoordinates == 3
SkiAreaIds == <<"a1", "a2">>
Regions == {"r1", "r2"}
\* the coordinate rows of the runs: the first coordinate of a run, a
\* segment without drop, segments east, south (in the southern hemisphere)
\* and just short of north
Coordinates ==
    {[bearing |-> NULL, distance_vertical_drop |-> NULL, latitude |-> 47],
     [bearing |-> Deg(90), distance_vertical_drop |-> 0, latitude |-> 47],
     [bearing |-> Deg(90), distance_vertical_drop |-> One, latitude |-> 47],
     [bearing |-> Deg(180), distance_vertical_drop |-> One, latitude |-> -33],
     [bearing |-> NearTurn, distance_vertical_drop |-> One, latitude |-> 47]}
RECURSIVE CoordinateCount(_, _)
\* the coordinate rows of the ski areas a, a + 1, ...
CoordinateCount(coordinates, a) ==
    IF a > Len(coordinates) THEN 0
    ELSE Len(coordinates[a]) + CoordinateCount(coordinates, a + 1)

\* the runs table in which the ski area ids[a] has the one downhill run of
\* the coordinate rows coordinates[a], or none if these are empty
one_run_each(ids, coordinates) ==
    LET with_run == SelectSeq([a \in 1..Len(ids) |-> a],
                              LAMBDA a : coordinates[a] # <<>>)
    IN np_array([r \in 1..Len(with_run) |->
           [run_id |-> with_run[r], run_uses |-> {"downhill"},
            ski_area_ids |-> <<ids[with_run[r]]>>,
            run_coordinates_clean |-> coordinates[with_run[r]]]])

Init ==
    /\ pc = "loaded"
    /\ args = <<>> /\ result = NoResult
    /\ \E coordinates \in
             [1..Len(SkiAreaIds) -> SeqsUpTo(Coordinates, MaxCoordinates)] :
          /\ CoordinateCount(coordinates, 1) <= MaxCoordinates
          /\ runs = one_run_each(SkiAreaIds, coordinates)
    /\ \E regions \in [1..Len(SkiAreaIds) -> Regions] :
          ski_areas = [a \in 1..Len(SkiAreaIds) |->
                          [ski_area_id |-> SkiAreaIds[a],
                           runConvention |-> "north_america",
                           region |-> regions[a]]]
    /\ ski_area_metrics = NoTable /\ groups = NoTable /\ bearing_dists = NoTable
    /\ NoOutputs

\* lines 116-122 of analyze_all_ski_areas_polars: the validation of the
\* table, then write_parquet unless an exception got through
ValidateAndWrite(table, validated) ==
    IF validated.raised # None
    THEN /\ pc' = "failed"
         /\ UNCHANGED <<ski_area_metrics, log>>
    ELSE /\ pc' = "analyzed"
         /\ log' = log \o validated.logged
         /\ ski_area_metrics' = table

\* analyze_all_ski_areas_polars()
AnalyzeAllSkiAreas ==
    /\ pc = "loaded"
    /\ \E analyzed \in {analyze_all_ski_areas_polars(ski_areas, runs)} :
          IF analyzed.raised # None
          THEN /\ pc' = "failed"
               /\ UNCHANGED <<ski_area_metrics, log>>
          ELSE ValidateAndWrite(analyzed.rows, validate_and_log(analyzed.rows))
    /\ UNCHANGED <<args, result, runs, ski_areas, groups, bearing_dists,
                   roses, futures>>

\* aggregate_ski_areas_pl(group_by=["region"])
AggregateSkiAreas ==
    /\ pc = "analyzed"
    /\ \E aggregated \in {aggregate_ski_areas_pl(ski_area_metrics)} :
          IF aggregated.raised # None
          THEN /\ pc' = "failed"
               /\ UNCHANGED groups
          ELSE /\ pc' = "aggregated"
               /\ groups' = aggregated.rows
    /\ UNCHANGED <<args, result, runs, ski_areas, ski_area_metrics,
                   bearing_dists, outputs>>

\* aggregate_ski_area_bearing_dists_pl(group_by=["region"])
AggregateBearingDists ==
    /\ pc = "analyzed"
    /\ bearing_dists' = aggregate_ski_area_bearing_dists_pl(ski_area_metrics)
    /\ pc' = "dists"
    /\ UNCHANGED <<args, result, runs, ski_areas, ski_area_metrics, groups,
                   outputs>>

Next == AnalyzeAllSkiAreas \/ AggregateSkiAreas \/ AggregateBearingDists

Spec == Init /\ [][Next]_vars

(***************************************************************************)
(* The pipeline on three ski areas, each with one of a few lists of        *)
(* coordinate rows: groups of up to three members.                         *)
(***************************************************************************)
GroupSkiAreaIds == <<"a1", "a2", "a3">>
\* the first coordinate of a run in the north
FirstCoordinate ==
    [bearing |-> NULL, distance_vertical_drop |-> NULL, latitude |-> 47]
\* the coordinate rows of a ski area: none, or one run of one segment that
\* bears east, a grid unit short of north, or north with a double drop
SkiAreaRuns ==
    {<<>>,
     <<FirstCoordinate,
       [bearing |-> Deg(90), distance_vertical_drop |-> One, latitude |-> 47]>>,
     <<FirstCoordinate,
       [bearing |-> Deg(360) - GridDeg, distance_vertical_drop |-> One,
        latitude |-> 47]>>,
     <<FirstCoordinate,
       [bearing |-> 0, distance_vertical_drop |-> 2 * One, latitude |-> 47]>>}

InitGroups ==
    /\ pc = "loaded"
    /\ args = <<>> /\ result = NoResult
    /\ \E coordinates \in [1..Len(GroupSkiAreaIds) -> SkiAreaRuns] :
          runs = one_run_each(GroupSkiAreaIds, coordinates)
    /\ \E regions \in [1..Len(GroupSkiAreaIds) -> Regions] :
          ski_areas = [a \in 1..Len(GroupSkiAreaIds) |->
                          [ski_area_id |-> GroupSkiAreaIds[a],
                           runConvention |-> "north_america",
                           region |-> regions[a]]]
    /\ ski_area_metrics = NoTable /\ groups = NoTable /\ bearing_dists = NoTable
    /\ NoOutputs

SpecGroups == InitGroups /\ [][Next]_vars

(***************************************************************************)
(* The pipeline on runs that list any of the ski areas: none, one or both. *)
(***************************************************************************)
RunIds == <<1, 2>>
\* ski_area_ids of a run
RunSkiAreaIds == {<<>>, <<"a1">>, <<"a2">>, <<"a1", "a2">>}
\* run_uses of a run
RunUses == {{"downhill"}, {"nordic"}}
\* the coordinate rows of a run: one segment east, or north with a double
\* drop
RunCoordinates ==
    {<<FirstCoordinate,
       [bearing |-> Deg(90), distance_vertical_drop |-> One, latitude |-> 47]>>,
     <<FirstCoordinate,
       [bearing |-> 0, distance_vertical_drop |-> 2 * One, latitude |-> 47]>>}

InitRuns ==
    /\ pc = "loaded"
    /\ args = <<>> /\ result = NoResult
    /\ \E ids \in [1..Len(RunIds) -> RunSkiAreaIds] :
          \E uses \in [1..Len(RunIds) -> RunUses] :
             \E coordinates \in [1..Len(RunIds) -> RunCoordinates] :
                runs = [r \in 1..Len(RunIds) |->
                           [run_id |-> RunIds[r], run_uses |-> uses[r],
                            ski_area_ids |-> ids[r],
                            run_coordinates_clean |-> coordinates[r]]]
    /\ \E region \in Regions :
          ski_areas = [a \in 1..Len(SkiAreaIds) |->
                          [ski_area_id |-> SkiAreaIds[a],
                           runConvention |-> "north_america",
                           region |-> IF a = 1 THEN RegionsAscending[1]
                                      ELSE region]]
    /\ ski_area_metrics = NoTable /\ groups = NoTable /\ bearing_dists = NoTable
    /\ NoOutputs

SpecRuns == InitRuns /\ [][Next]_vars

(***************************************************************************)
(* The pipeline on ski areas of any runConvention, among them one that is  *)
(* not of the schema and a missing one.                                    *)
(***************************************************************************)
LoadedRunConventions == {"north_america", "europe", "oceania", None}

InitValidate ==
    /\ pc = "loaded"
    /\ args = <<>> /\ result = NoResult
    /\ \E coordinates \in [1..Len(SkiAreaIds) -> SkiAreaRuns] :
          runs = one_run_each(SkiAreaIds, coordinates)
    /\ \E regions \in [1..Len(SkiAreaIds) -> Regions] :
          \E conventions \in [1..Len(SkiAreaIds) -> LoadedRunConventions] :
             ski_areas = [a \in 1..Len(SkiAreaIds) |->
                             [ski_area_id |-> SkiAreaIds[a],
                              runConvention |-> conventions[a],
                              region |-> regions[a]]]
    /\ ski_area_metrics = NoTable /\ groups = NoTable /\ bearing_dists = NoTable
    /\ NoOutputs

SpecValidate == InitValidate /\ [][Next]_vars
(***************************************************************************)
(* create_ski_area_roses (openskistats/analyze.py).  A rose file is        *)
(* [directory, name, rose, call]: its path, the rose drawn in it and the   *)
(* call of create_ski_area_roses that wrote it.  A task of the worker pool *)
(* is [ski_area_id, preview_path, full_path, state].                       *)
(***************************************************************************)
\* get_display_ski_area_filters()
display_filter(info) ==
    /\ info.run_count >= 3
    /\ info.combined_vertical >= 50 * One
    /\ info.ski_area_name # None

\* a variant that names every file alike
shared_rose_path(directory, ski_area_id) ==
    [directory |-> directory, name |-> "rose.svg"]

\* directory.joinpath(f"{ski_area_id}.svg")
rose_path(directory, ski_area_id) ==
    [directory |-> directory, name |-> ski_area_id]

\* path.exists()
path_exists(files, path) ==
    \E f \in files : f.directory = path.directory /\ f.name = path.name

\* a variant that skips no ski area
skip_none(overwrite, files, full_path) == FALSE

\* if not overwrite and full_path.exists(): continue
skip_existing(overwrite, files, full_path) ==
    ~overwrite /\ path_exists(files, full_path)

\* the task of a ski area that is not skipped
rose_task(info) ==
    [ski_area_id |-> info.ski_area_id,
     preview_path |-> rose_path("roses-preview", info.ski_area_id),
     full_path |-> rose_path("roses-full", info.ski_area_id),
     state |-> "pending"]

\* lines 386-399: the tasks of the filtered ski areas, in table order
rose_tasks(table, files, overwrite) ==
    LET selected ==
            SelectSeq(table,
                LAMBDA info :
                    /\ display_filter(info)
                    /\ ~skip_existing(overwrite, files,
                            rose_path("roses-full", info.ski_area_id)))
    IN np_array([t \in 1..Len(selected) |-> rose_task(selected[t])])

\* fig.savefig(path, ...): the file at the path is created or replaced
savefig(files, path, rose, call) ==
    {f \in files : ~(f.directory = path.directory /\ f.name = path.name)}
        \cup {[directory |-> path.directory, name |-> path.name,
                rose |-> rose, call |-> call]}

\* the rows of the metrics table that create_ski_area_roses may load: a ski
\* area that passes the display filters, one without a name, one with too
\* few runs
RoseSkiAreaIds == <<"a1", "a2">>
RoseInfos ==
    {[ski_area_name |-> "name", run_count |-> 3, combined_vertical |-> 50 * One],
     [ski_area_name |-> None, run_count |-> 3, combined_vertical |-> 50 * One],
     [ski_area_name |-> "name", run_count |-> 2, combined_vertical |-> 50 * One]}
\* the most calls of create_ski_area_roses
MaxCalls == 2

InitRoses ==
    /\ pc = "analyzed"
    /\ args = [overwrite |-> FALSE, call |-> 0]
    /\ result = NoResult
    /\ runs = NoTable /\ ski_areas = NoTable
    /\ \E infos \in [1..Len(RoseSkiAreaIds) -> RoseInfos] :
          ski_area_metrics =
              [a \in 1..Len(RoseSkiAreaIds) |->
                  [ski_area_id |-> RoseSkiAreaIds[a],
                   ski_area_name |-> infos[a].ski_area_name,
                   run_count |-> infos[a].run_count,
                   combined_vertical |-> infos[a].combined_vertical]]
    /\ groups = NoTable /\ bearing_dists = NoTable
    /\ NoOutputs

\* create_ski_area_roses(overwrite) up to executor.map: the tasks are
\* submitted to the pool
CreateSkiAreaRoses ==
    /\ pc \in {"analyzed", "returned"}
    /\ args.call < MaxCalls
    /\ \E overwrite \in BOOLEAN :
          /\ args' = [overwrite |-> overwrite, call |-> args.call + 1]
          /\ futures' = rose_tasks(ski_area_metrics, roses, overwrite)
    /\ pc' = "pool"
    /\ UNCHANGED <<result, tables, log, roses>>

\* _create_ski_area_rose in a worker, up to the first savefig: the preview
RenderPreview ==
    /\ pc = "pool"
    /\ \E t \in 1..Len(futures) :
          /\ futures[t].state = "pending"
          /\ roses' = savefig(roses, futures[t].preview_path,
                           [ski_area_id |-> futures[t].ski_area_id,
                            num_bins |-> 8], args.call)
          /\ futures' = [futures EXCEPT ![t].state = "preview"]
    /\ UNCHANGED <<pc, args, result, tables, log>>

\* _create_ski_area_rose from there to its return: the full rose
RenderFull ==
    /\ pc = "pool"
    /\ \E t \in 1..Len(futures) :
          /\ futures[t].state = "preview"
          /\ roses' = savefig(roses, futures[t].full_path,
                           [ski_area_id |-> futures[t].ski_area_id,
                            num_bins |-> 32], args.call)
          /\ futures' = [futures EXCEPT ![t].state = "done"]
    /\ UNCHANGED <<pc, args, result, tables, log>>

\* an exception of a task is set on its future: the error of pickling the
\* callable for the worker, which a local lambda meets before it runs, or
\* one raised by the plotting or by savefig
TaskRaises ==
    /\ pc = "pool"
    /\ \E t \in 1..Len(futures) :
          /\ futures[t].state \in {"pending", "preview"}
          /\ futures' = [futures EXCEPT ![t].state = "failed"]
    /\ UNCHANGED <<pc, args, result, tables, log, roses>>

\* the end of the with block: the executor has waited for every future;
\* the iterator of executor.map is dropped without a look at the results
ReturnFromRoses ==
    /\ pc = "pool"
    /\ \A t \in 1..Len(futures) : futures[t].state \in {"done", "failed"}
    /\ pc' = "returned"
    /\ UNCHANGED <<args, result, tables, outputs>>

NextRoses ==
    \/ CreateSkiAreaRoses \/ RenderPreview \/ RenderFull \/ TaskRaises
    \/ ReturnFromRoses

SpecRoses == InitRoses /\ [][NextRoses]_vars

(***************************************************************************)
(* _clean_coordinates (openskimap_utils.py).  A point is [lon, lat, ele],  *)
(* the degrees in units of 1e-8 and the elevation in units of 0.001 m: one *)
(* decimal more than the function keeps.                                   *)
(***************************************************************************)
\* round(x, 7) of degrees and round(x, 2) of metres, in the units of x
round_decimal(x) == RoundHalfEven(x, 10) * 10

\* (round(lon, 7), round(lat, 7), round(ele, 2))
rounded_point(point) ==
    [lon |-> round_decimal(point.lon), lat |-> round_decimal(point.lat),
     ele |-> round_decimal(point.ele)]

\* clean_coords.reverse()
reversed(coords) ==
    np_array([j \in 1..Len(coords) |-> coords[Len(coords) + 1 - j]])

\* a variant that turns the downhill runs round
uphill_reverse(ensure_downhill, clean_coords) ==
    ensure_downhill /\ clean_coords[1].ele > clean_coords[Len(clean_coords)].ele

\* ensure_downhill and (clean_coords[0][2] < clean_coords[-1][2])
downhill_reverse(ensure_downhill, clean_coords) ==
    ensure_downhill /\ clean_coords[1].ele < clean_coords[Len(clean_coords)].ele

RECURSIVE clean_from(_, _, _)
\* the loop of _clean_coordinates from the point j on: a point below
\* min_elevation is left out, another is appended rounded
clean_from(coordinates, min_elevation, j) ==
    IF j > Len(coordinates) THEN <<>>
    ELSE IF coordinates[j].ele < min_elevation
         THEN clean_from(coordinates, min_elevation, j + 1)
         ELSE <<rounded_point(coordinates[j])>>
                  \o clean_from(coordinates, min_elevation, j + 1)

\* the return of _clean_coordinates, given the list of the loop
downhill_coords(clean_coords, ensure_downhill) ==
    IF clean_coords = <<>> THEN clean_coords
    ELSE IF downhill_reverse(ensure_downhill, clean_coords)
         THEN reversed(clean_coords)
         ELSE clean_coords

clean_coordinates(coordinates, min_elevation, ensure_downhill) ==
    downhill_coords(clean_from(coordinates, min_elevation, 1), ensure_downhill)

\* the longest list of points
MaxPoints == 3
\* points below the default min_elevation of -100 m and just above it,
\* points that round down and up, and one that is round already
Points ==
    {[lon |-> -719876543, lat |-> 1312345678, ele |-> -100004],
     [lon |-> -719876546, lat |-> 1312345674, ele |-> -99996],
     [lon |-> -719876550, lat |-> 1312345670, ele |-> 1234],
     [lon |-> -719876554, lat |-> 1312345666, ele |-> 1236],
     [lon |-> -719876560, lat |-> 1312345660, ele |-> 2000]}
\* min_elevation: the default of -100.0, and 0.0
MinElevations == {-100 * 1000, 0}
\* the most times a list is cleaned
MaxCleanings == 2

InitClean ==
    /\ pc = "call"
    /\ \E coordinates \in SeqsUpTo(Points, MaxPoints) :
          \E min_elevation \in MinElevations, ensure_downhill \in BOOLEAN :
             args = [coordinates |-> coordinates,
                     min_elevation |-> min_elevation,
                     ensure_downhill |-> ensure_downhill]
    /\ result = <<>>
    /\ NoTables /\ NoOutputs

\* _clean_coordinates(coordinates, ...), or the same of its own output
CleanCoordinates ==
    /\ Len(result) < MaxCleanings
    /\ result' = Append(result,
                    clean_coordinates(
                        IF result = <<>> THEN args.coordinates
                        ELSE result[Len(result)],
                        args.min_elevation, args.ensure_downhill))
    /\ pc' = "cleaned"
    /\ UNCHANGED <<args, tables, outputs>>

NextClean == CleanCoordinates

SpecClean == InitClean /\ [][NextClean]_vars

(***************************************************************************)
(* add_spatial_metric_columns (bearing.py) as process_and_export_runs      *)
(* calls it: on the exploded coordinates of the runs, partitioned by       *)
(* run_id.  The hash of a segment is modelled by the struct it hashes.     *)
(***************************************************************************)
\* .explode("run_coordinates_clean").unnest(...) of one run: a row per
\* coordinate, and one row of nulls for an empty list
exploded_run(run) ==
    IF run.run_coordinates_clean = <<>>
    THEN <<[run_id |-> run.run_id, index |-> NULL, latitude |-> NULL,
            longitude |-> NULL, elevation |-> NULL]>>
    ELSE np_array([j \in 1..Len(run.run_coordinates_clean) |->
             [run_id |-> run.run_id,
              index |-> run.run_coordinates_clean[j].index,
              latitude |-> run.run_coordinates_clean[j].latitude,
              longitude |-> run.run_coordinates_clean[j].longitude,
              elevation |-> run.run_coordinates_clean[j].elevation]])

RECURSIVE exploded_coordinates(_, _)
\* the exploded rows of the runs r, r + 1, ...
exploded_coordinates(runs_df, r) ==
    IF r > Len(runs_df) THEN <<>>
    ELSE exploded_run(runs_df[r]) \o exploded_coordinates(runs_df, r + 1)

\* a variant that shifts the whole column: the row before, of any run
shift_column(df, j) == IF j = 1 THEN {} ELSE {j - 1}

\* .shift(1).over(partition_by, order_by="index"): the row whose value the
\* row j gets, the one before it by index in its partition, if any
shift_over(df, j) ==
    {p \in 1..Len(df) :
        /\ df[p].run_id = df[j].run_id
        /\ df[p].index # NULL /\ df[j].index # NULL
        /\ df[p].index < df[j].index
        /\ \A q \in 1..Len(df) :
              (df[q].run_id = df[j].run_id /\ df[q].index # NULL
               /\ df[q].index < df[j].index) => df[q].index <= df[p].index}

\* the value of a lag column of a row, null without a row before it
lag_of(df, lagged, column) ==
    IF lagged = {} THEN NULL ELSE df[CHOOSE p \in lagged : TRUE][column]

\* .clip(lower_bound=0), null for null
clip_lower_0(v) == IF v = NULL THEN NULL ELSE IF v < 0 THEN 0 ELSE v

\* the null of segment_hash
NoSegmentHash == <<>>

\* the row with its segment_hash, distance_vertical and
\* distance_vertical_drop, given its lag columns
spatial_metric_row(row, latitude_lag, longitude_lag, elevation_lag) ==
    LET distance_vertical ==
            IF elevation_lag = NULL \/ row.elevation = NULL THEN NULL
            ELSE elevation_lag - row.elevation
    IN [run_id |-> row.run_id, index |-> row.index,
        latitude |-> row.latitude, longitude |-> row.longitude,
        elevation |-> row.elevation,
        distance_vertical |-> distance_vertical,
        segment_hash |->
            IF latitude_lag # NULL
            THEN <<latitude_lag, longitude_lag, row.latitude, row.longitude>>
            ELSE NoSegmentHash,
        distance_vertical_drop |-> clip_lower_0(distance_vertical)]

\* add_spatial_metric_columns(df, partition_by="run_id"), without the
\* columns of the horizontal distance and the bearing
add_spatial_metric_columns(df) ==
    np_array([j \in 1..Len(df) |->
        spatial_metric_row(df[j],
            lag_of(df, shift_over(df, j), "latitude"),
            lag_of(df, shift_over(df, j), "longitude"),
            lag_of(df, shift_over(df, j), "elevation"))])

\* the most runs and the most coordinates of a run
MaxRuns == 2
MaxRunPoints == 3
\* elevations in metres
Elevations == {1200, 1210}
\* the coordinates of the run r with the elevations es: latitude and
\* longitude differ from point to point and from run to run
run_coordinates(r, es) ==
    [j \in 1..Len(es) |->
        [index |-> j - 1, latitude |-> 4700 + 10 * r + j,
         longitude |-> 1100 + 10 * r + j, elevation |-> es[j]]]

InitSegments ==
    /\ pc = "call"
    /\ \E n \in 1..MaxRuns :
          \E es \in [1..n -> SeqsUpTo(Elevations, MaxRunPoints)] :
             args = [runs_df |->
                        [r \in 1..n |->
                            [run_id |-> r,
                             run_coordinates_clean |-> run_coordinates(r, es[r])]]]
    /\ result = <<>>
    /\ NoTables /\ NoOutputs

\* process_and_export_runs up to the group_by: the coordinates exploded,
\* with their spatial metrics
AddSpatialMetricColumns ==
    /\ pc = "call"
    /\ result' = add_spatial_metric_columns(exploded_coordinates(args.runs_df, 1))
    /\ pc' = "done"
    /\ UNCHANGED <<args, tables, outputs>>

NextSegments == AddSpatialMetricColumns

SpecSegments == InitSegments /\ [][NextSegments]_vars

(***************************************************************************)
(* Calls of pl_flip_bearing (utils.py), on whole degrees as in its test:   *)
(* the expression applied to a row, and to its own output.                 *)
(***************************************************************************)
\* a variant that leaves out the .mod(360)
flip_without_mod(b) == 180 - b

\* pl.lit(180).sub(bearing_col).mod(360): the remainder has the sign of the
\* divisor, as the test of 265 -> 275 shows
flip_mod_360(b) == (180 - b) % 360

\* pl_flip_bearing: when(latitude > 0) is false for a null latitude too
pl_flip_bearing(latitude, bearing) ==
    IF latitude # NULL /\ latitude > 0 THEN bearing ELSE flip_mod_360(bearing)

FlipLatitudes == {47, 0, -33, NULL}
FlipBearings == {-85, 0, 5, 45, 90, 95, 180, 265, 270, 359, 360, 450, 630}
\* the most times the expression is applied to a row
MaxFlips == 2

InitFlip ==
    /\ pc = "call"
    /\ \E latitude \in FlipLatitudes, bearing \in FlipBearings :
          args = [latitude |-> latitude, bearing |-> bearing]
    /\ result = <<>>
    /\ NoTables /\ NoOutputs

\* with_columns(bearing=pl_flip_bearing()) on the row, or on its output
FlipBearing ==
    /\ Len(result) < MaxFlips
    /\ result' = Append(result,
                    pl_flip_bearing(args.latitude,
                        IF result = <<>> THEN args.bearing
                        ELSE result[Len(result)]))
    /\ pc' = "flipped"
    /\ UNCHANGED <<args, tables, outputs>>

NextFlip == FlipBearing

SpecFlip == InitFlip /\ [][NextFlip]_vars

(***************************************************************************)
(* Claims about get_bearing_summary_stats, checked under SpecStats.        *)
(***************************************************************************)
\* the call is over and got past the shape assertion
Computed == pc = "done" /\ result.raised # "AssertionError"
NetArray == magnitudes_array(args.net_magnitudes, args.bearings)
CumArray == magnitudes_array(args.cum_magnitudes, args.bearings)
\* the net-weighted vector sum of the arguments, summed bearing by bearing
WeightedVectorSum ==
    LET part[k \in 0..Len(args.bearings)] ==
            IF k = 0 THEN <<0, 0>>
            ELSE <<part[k - 1][1] + NetArray[k] * UnitVector(args.bearings[k])[1],
                   part[k - 1][2] + NetArray[k] * UnitVector(args.bearings[k])[2]>>
    IN part[Len(args.bearings)]
\* the model the same call builds with another hemisphere
WithHemisphere(h) ==
    get_bearing_summary_stats(args.bearings, args.net_magnitudes,
                              args.cum_magnitudes, h).model
OtherFields(m) ==
    <<m.bearing_mean, m.bearing_alignment, m.eastward_affinity,
      m.bearing_magnitude_net, m.bearing_magnitude_cum>>

\* C6: for all inputs, the bearing_mean that get_bearing_summary_stats
\* computes (radian rounding, mod 360, final rounding) satisfies
\* 0 <= bearing_mean < 360: it is never 360 and never negative.
C6_BearingMeanInRange ==
    Computed => /\ result.model.bearing_mean >= 0
                /\ result.model.bearing_mean < 360 * One

\* C7: for all non-negative net and cum magnitudes, which may differ element
\* by element, the bearing_alignment computed lies in [0, 1].
C7_AlignmentInUnitInterval ==
    Computed => /\ result.model.bearing_alignment >= 0
                /\ result.model.bearing_alignment <= One

C10_HemisphereOnlyPoleward ==
    Computed =>
        /\ \A h \in Hemispheres :
              OtherFields(WithHemisphere(h)) = OtherFields(result.model)
        /\ args.hemisphere = None => result.model.poleward_affinity = NULL
        /\ args.hemisphere = "south" =>
              result.model.poleward_affinity =
                  -WithHemisphere("north").poleward_affinity
        /\ args.hemisphere = "north" =>
              /\ result.model.poleward_affinity =
                     -WithHemisphere("south").poleward_affinity
              /\ Abs(result.model.poleward_affinity * S
                     - result.model.bearing_alignment
                       * UnitVector(result.model.bearing_mean * GridDeg)[1])
                 <= S + S \div 8

\* C10's case: a southern call with both affinities away from 0
C10_Witness ==
    /\ Computed /\ args.hemisphere = "south"
    /\ result.raised = None
    /\ result.model.poleward_affinity > 0
    /\ result.model.eastward_affinity > 0
    /\ WithHemisphere("north").poleward_affinity < 0

\* the three arrays of the call have one length
SameLengths ==
    /\ Len(NetArray) = Len(args.bearings)
    /\ Len(CumArray) = Len(args.bearings)

\* C11: when bearings, net_magnitudes and cum_magnitudes do not all have the
\* same length, get_bearing_summary_stats ends in an error and returns no
\* summary: nothing is truncated or broadcast.
C11_ShapeMismatchRejected ==
    (pc = "done" /\ ~SameLengths) =>
        /\ result.raised = "AssertionError"
        /\ result.model = NoModel

\* C11's case: net magnitudes of the right length, cumulative magnitudes
\* that are one too long
C11_Witness ==
    /\ pc = "done"
    /\ Len(args.bearings) = 2
    /\ Len(NetArray) = 2 /\ Len(CumArray) = 3
    /\ result.raised = "AssertionError"

\* the same call with the bearing j a full turn further
ShiftedCall(j) ==
    get_bearing_summary_stats([args.bearings EXCEPT ![j] = @ + Deg(360)],
                              args.net_magnitudes, args.cum_magnitudes,
                              args.hemisphere)
UnitWeights ==
    /\ \A j \in 1..Len(NetArray) : NetArray[j] = One
    /\ \A j \in 1..Len(CumArray) : CumArray[j] = One

CallWith(ns, cs) ==
    get_bearing_summary_stats(args.bearings, ns, cs, args.hemisphere)

\* C14: when net_magnitudes is omitted every segment gets net magnitude 1,
\* and when cum_magnitudes is omitted every segment gets cumulative
\* magnitude 1, whatever the net magnitudes are; bearings [0, 90] with net
\* omitted and cum [2, 2] give alignment sqrt(2)/4 = 0.3535534.
C14_DefaultMagnitudesAreOnes ==
    pc = "done" =>
        /\ args.net_magnitudes = Omitted =>
              result = CallWith(Given(ones_like(args.bearings)), args.cum_magnitudes)
        /\ args.cum_magnitudes = Omitted =>
              result = CallWith(args.net_magnitudes, Given(ones_like(args.bearings)))
        /\ (/\ args.bearings = <<0, Deg(90)>>
            /\ args.net_magnitudes = Omitted
            /\ args.cum_magnitudes = Given(<<2 * One, 2 * One>>)) =>
              /\ result.raised = None
              /\ result.model.bearing_mean = 45 * One
              /\ result.model.bearing_alignment =
                     RoundHalfEven(3535534, 10 ^ PrecisionCut)

\* C14's case: the bearings 0 and 90 without net magnitudes and with the
\* cumulative magnitudes 2 and 2
C14_Witness ==
    /\ Computed
    /\ args.bearings = <<0, Deg(90)>>
    /\ args.net_magnitudes = Omitted
    /\ args.cum_magnitudes = Given(<<2 * One, 2 * One>>)
    /\ result.model.bearing_magnitude_cum = 4 * One
    /\ result.model.bearing_alignment > 0
    /\ result = CallWith(Given(<<One, One>>), args.cum_magnitudes)

\* C15 as stated: when cum_magnitudes is omitted the cumulative magnitudes
\* default to the net magnitudes supplied, so that bearing_magnitude_cum is
\* the sum of the net magnitudes.
C15_CumDefaultsToNet ==
    (Computed /\ args.cum_magnitudes = Omitted) =>
        result.model.bearing_magnitude_cum = SumSeq(NetArray)

\* C15 amended: when cum_magnitudes is omitted bearing_magnitude_cum is the
\* number of bearings (a cumulative magnitude of 1 each), whatever the net
\* magnitudes are; it is the sum of the net magnitudes only when that sum
\* happens to be the number of bearings.
C15_CumDefaultsToOnes ==
    (Computed /\ args.cum_magnitudes = Omitted) =>
        /\ result.model.bearing_magnitude_cum = Len(args.bearings) * One
        /\ (result.model.bearing_magnitude_cum = SumSeq(NetArray))
               <=> (SumSeq(NetArray) = Len(args.bearings) * One)

\* C15's case: net magnitudes that do not sum to the number of bearings,
\* and no cumulative magnitudes
C15_Witness ==
    /\ Computed /\ args.cum_magnitudes = Omitted
    /\ args.net_magnitudes # Omitted
    /\ SumSeq(NetArray) # Len(args.bearings) * One
    /\ result.raised = None
    /\ result.model.bearing_magnitude_cum = Len(args.bearings) * One
    /\ result.model.bearing_alignment > 0

\* the segments of the call that have a net magnitude, as <<bearing, net>>
NetSegments ==
    SelectSeq([j \in 1..Len(args.bearings) |-> <<args.bearings[j], NetArray[j]>>],
              LAMBDA segment : segment[2] # 0)
\* the call on those segments alone
NetSegmentsCall ==
    get_bearing_summary_stats([j \in 1..Len(NetSegments) |-> NetSegments[j][1]],
                              Given([j \in 1..Len(NetSegments) |-> NetSegments[j][2]]),
                              Omitted, args.hemisphere)
Largest(a, b) == IF a > b THEN a ELSE b

\* C16: bearing_magnitude_cum is the sum of all cum_magnitudes, those of the
\* segments with net magnitude 0 included; bearing_magnitude_net is the
\* length of the net-weighted vector sum and never negative;
\* bearing_alignment is their ratio; a segment with net magnitude 0 changes
\* the denominator only, never the mean bearing (bearings [0, 90], net
\* [0, 1] and a summed cum of 2 give mean 90 and alignment 0.5).
C16_MagnitudesAndRatio ==
    Computed =>
        /\ result.model.bearing_magnitude_cum = SumSeq(CumArray)
        /\ result.model.bearing_magnitude_net >= 0
        /\ result.model.bearing_magnitude_net =
               RoundHalfEven(Polar(WeightedVectorSum)[1], S)
        /\ result.model.bearing_magnitude_net
               >= RoundHalfEven(Largest(Abs(WeightedVectorSum[1]),
                                        Abs(WeightedVectorSum[2])), S)
        /\ result.model.bearing_magnitude_net
               <= RoundHalfEven(Abs(WeightedVectorSum[1])
                                + Abs(WeightedVectorSum[2]), S)
        /\ IF SumSeq(CumArray) > 0
           THEN Abs(result.model.bearing_alignment * SumSeq(CumArray)
                    - result.model.bearing_magnitude_net * One)
                <= SumSeq(CumArray) + One
           ELSE result.model.bearing_alignment = 0
        /\ result.model.bearing_mean = NetSegmentsCall.model.bearing_mean
        /\ result.model.bearing_magnitude_net
               = NetSegmentsCall.model.bearing_magnitude_net
        /\ (/\ args.bearings = <<0, Deg(90)>> /\ NetArray = <<0, One>>
            /\ SumSeq(CumArray) = 2 * One) =>
              /\ result.raised = None
              /\ result.model.bearing_mean = 90 * One
              /\ result.model.bearing_alignment = One \div 2

\* C16's case: the bearings 0 and 90 with the net magnitudes 0 and 1 and a
\* summed cumulative magnitude of 2
C16_Witness ==
    /\ Computed /\ result.raised = None
    /\ args.bearings = <<0, Deg(90)>> /\ NetArray = <<0, One>>
    /\ SumSeq(CumArray) = 2 * One
    /\ result.model.bearing_mean = 90 * One
    /\ result.model.bearing_alignment = One \div 2
    /\ result.model.bearing_magnitude_cum = 2 * One
(***************************************************************************)
(* Claims about the histogram builder, checked under SpecHistogram.        *)
(***************************************************************************)
Built == pc = "done" /\ result.raised = None
RowsOf(rows, n) == {i \in 1..Len(rows) : rows[i].num_bins = n}
SumOver(f, set) ==
    LET RECURSIVE sum(_)
        sum(ss) == IF ss = {} THEN 0
                   ELSE LET x == CHOOSE y \in ss : TRUE
                        IN f[x] + sum(ss \ {x})
    IN sum(set)
\* the resolutions the result holds
Resolutions(rows) == {rows[i].num_bins : i \in 1..Len(rows)}
BinCountTotal(rows, n) ==
    SumOver([i \in 1..Len(rows) |-> rows[i].bin_count], RowsOf(rows, n))
InFullTurn(bs) == \A j \in 1..Len(bs) : bs[j] >= 0 /\ bs[j] < Deg(360)

\* C2: for bearings in [0, 360) and every num_bins of 2, 4, 8, 32, the
\* bin_count values of get_bearing_histogram sum to the sum of the input
\* weights, so the total is the same at the four resolutions.
C2_MassConservation ==
    (Built /\ InFullTurn(args.bearings)) =>
        /\ \A n \in Resolutions(result.rows) :
              /\ Cardinality(RowsOf(result.rows, n)) = n
              /\ BinCountTotal(result.rows, n) = SumSeq(args.weights)
        /\ Resolutions(result.rows) # {}

\* C2's case: weight in the last split bin, which the roll moves to the
\* first bin, at the four resolutions
C2_Witness ==
    /\ Built /\ InFullTurn(args.bearings)
    /\ Len(result.rows) = SumSeq(BearingBins)
    /\ \E j \in 1..Len(args.bearings) :
          args.bearings[j] = NearTurn /\ args.weights[j] > 0
    /\ result.rows[1].bin_count = SumSeq(args.weights)
    /\ Len(args.bearings) = 2

\* C3: on zero total weight (no segments, or all weights 0) every bin_count
\* is 0 and every bin_proportion is exactly 0, not NaN and not null, at
\* every resolution.
C3_ZeroWeightProportionZero ==
    (Built /\ SumSeq(args.weights) = 0) =>
        \A i \in 1..Len(result.rows) :
            /\ result.rows[i].bin_count = 0
            /\ result.rows[i].bin_proportion = 0

\* C12: an input with a bearing outside [0, 360) (or a negative magnitude)
\* is rejected with a validation error by the histogram builder (and by the
\* statistics): it is never silently accepted, wrapped or dropped.
C12_OutOfRangeRejected ==
    (pc = "done" /\ ~InFullTurn(args.bearings)) => result.raised # None
(***************************************************************************)
(* Claims about the pipeline, checked under Spec.  A group is a region;    *)
(* its segments are the coordinate rows of its ski areas.                  *)
(***************************************************************************)
RECURSIVE GroupCoordinates(_, _)
\* the coordinate rows of the ski areas a, a + 1, ... of the group
GroupCoordinates(group, a) ==
    IF a > Len(ski_areas) THEN <<>>
    ELSE (IF ski_areas[a].region = group
          THEN ski_area_coordinates(
                   ski_area_runs(runs, ski_areas[a].ski_area_id), 1)
          ELSE <<>>)
         \o GroupCoordinates(group, a + 1)
\* the statistics of all the segments of the group, in one pass
SinglePassStats(group) ==
    get_bearing_summary_stats_pl(run_struct(GroupCoordinates(group, 1)))
\* the histograms of all the segments of the group, in one pass
SinglePassHistograms(group) == run_histograms(GroupCoordinates(group, 1)).rows
Near(a, b) == Abs(a - b) <= 2
\* two bearings (grid units) within a degree of each other around the circle
NearBearing(a, b) == Abs(a - b) <= One \/ Abs(a - b) >= 359 * One
SameSummary(m, d) ==
    /\ NearBearing(m.bearing_mean, d.bearing_mean)
    /\ Near(m.bearing_alignment, d.bearing_alignment)
    /\ Near(m.bearing_magnitude_net, d.bearing_magnitude_net)
    /\ Near(m.bearing_magnitude_cum, d.bearing_magnitude_cum)
    /\ Near(m.eastward_affinity, d.eastward_affinity)
    /\ (m.poleward_affinity # NULL /\ d.poleward_affinity # NULL) =>
          Near(m.poleward_affinity, d.poleward_affinity)
\* m is the summary the single pass returned, if it returned one
SameAsSinglePass(m, single) == single.raised = None => SameSummary(m, single.model)
\* the aggregated histograms of the groups, from either aggregation
AggregatedDists ==
    IF pc = "dists" THEN bearing_dists
    ELSE [g \in {groups[k].region : k \in 1..Len(groups)} |->
             groups[CHOOSE k \in 1..Len(groups) : groups[k].region = g].bearings]
Aggregated == pc \in {"dists", "aggregated"}
\* the rows of resolution n hold bin_count / total, or 0 without a total
AggregatedProportionsOf(rows, n, total) ==
    /\ \A i \in RowsOf(rows, n) :
          rows[i].bin_proportion =
              IF total > 0 THEN Ratio(rows[i].bin_count, total) ELSE 0
    /\ total > 0 =>
          /\ SumOver([i \in 1..Len(rows) |-> rows[i].bin_proportion],
                     RowsOf(rows, n)) <= S
          /\ SumOver([i \in 1..Len(rows) |-> rows[i].bin_proportion],
                     RowsOf(rows, n)) >= S - n
\* the same bin_count at every (num_bins, bin_index), and the same keys
SameBinCounts(rows, single) ==
    /\ Len(rows) = Len(single)
    /\ \A i \in 1..Len(rows) :
          \E j \in 1..Len(single) :
              /\ single[j].num_bins = rows[i].num_bins
              /\ single[j].bin_index = rows[i].bin_index
              /\ single[j].bin_count = rows[i].bin_count

\* C1: for any partition of segments into entities and any grouping of the
\* entities, the summary aggregate_ski_areas_pl derives from the entity
\* summaries equals, within tolerance, get_bearing_summary_stats applied
\* directly to all the segments of the group, for every field.
C1_ReaggregationEquivalence ==
    pc = "aggregated" =>
        \A k \in 1..Len(groups) :
            SameAsSinglePass(groups[k].stats, SinglePassStats(groups[k].region))

\* C4: in the aggregated histogram, for every (group, num_bins), the
\* bin_proportion of a bin is its bin_count divided by the sum of bin_count
\* over the group and the resolution when that sum is > 0, so that the
\* proportions sum to 1, and every bin_proportion is exactly 0 when it is 0.
C4_AggregatedProportion ==
    Aggregated =>
        \A g \in DOMAIN AggregatedDists :
            \A n \in Resolutions(AggregatedDists[g]) :
                AggregatedProportionsOf(AggregatedDists[g], n,
                                        BinCountTotal(AggregatedDists[g], n))

\* C4's case: a group without any vertical drop next to its histogram, and
\* a group whose drop is spread over two bins
C4_Witness ==
    /\ pc = "dists"
    /\ \E g \in DOMAIN bearing_dists :
          \A i \in 1..Len(bearing_dists[g]) :
              bearing_dists[g][i].bin_count = 0 /\ bearing_dists[g][i].bin_proportion = 0
    /\ \E g \in DOMAIN bearing_dists :
          \E i \in 1..Len(bearing_dists[g]) :
              /\ bearing_dists[g][i].bin_proportion > 0
              /\ bearing_dists[g][i].bin_proportion < S

\* C5: for every group and every (num_bins, bin_index), the bin_count that
\* sums the stored bin_count of the member entities equals the bin_count
\* the histogram builder returns on the union of the segments of the members.
C5_HistogramReaggregation ==
    Aggregated =>
        \A g \in DOMAIN AggregatedDists :
            SameBinCounts(AggregatedDists[g], SinglePassHistograms(g))

\* C5's case: a group of two ski areas that both put weight into one bin
C5_Witness ==
    /\ pc = "dists"
    /\ \E g \in DOMAIN bearing_dists :
          /\ \A a \in 1..Len(ski_areas) :
                /\ ski_areas[a].region = g
                /\ \E i \in 1..Len(ski_area_metrics[a].bearings) :
                      /\ ski_area_metrics[a].bearings[i].bin_count > 0
                      /\ bearing_dists[g][i].bin_count
                             > ski_area_metrics[a].bearings[i].bin_count
          /\ SameBinCounts(bearing_dists[g], SinglePassHistograms(g))

\* the key of every group row
GroupKeys == {groups[k].region : k \in 1..Len(groups)}
\* the position of a region in the ascending order
RegionRank(region) ==
    CHOOSE i \in 1..Len(RegionsAscending) : RegionsAscending[i] = region
\* the ski area a has no coordinate rows
NoSegments(a) == ski_area_runs(runs, ski_areas[a].ski_area_id) = <<>>

\* C17: a ski area or a group without qualifying segments still has its row,
\* with null or zero statistics, in the per-entity table and in the
\* per-group table of aggregate_ski_areas_pl: it is never dropped.
C17_NothingDropped ==
    /\ pc \in {"analyzed", "aggregated", "dists"} =>
          /\ Len(ski_area_metrics) = Len(ski_areas)
          /\ \A a \in 1..Len(ski_areas) :
                /\ ski_area_metrics[a].region = ski_areas[a].region
                /\ NoSegments(a) => ski_area_metrics[a].stats = NoModel
    /\ pc = "aggregated" =>
          \A a \in 1..Len(ski_areas) : ski_areas[a].region \in GroupKeys

\* C18: aggregate_ski_areas_pl emits at most one row per value of the
\* grouping key, only for values that occur among the ski areas (never a
\* group without a member), and the rows are sorted ascending by the key.
C18_OneSortedRowPerKey ==
    pc = "aggregated" =>
        /\ \A k, l \in 1..Len(groups) :
              groups[k].region = groups[l].region => k = l
        /\ \A k \in 1..Len(groups) :
              /\ groups[k].region \in group_keys(ski_area_metrics)
              /\ groups[k].ski_areas_count > 0
              /\ groups[k].ski_areas_count
                     = Cardinality({a \in 1..Len(ski_areas) :
                                       ski_areas[a].region = groups[k].region})
        /\ \A k \in 1..(Len(groups) - 1) :
              RegionRank(groups[k].region) < RegionRank(groups[k + 1].region)

\* C18's case: two groups, met in descending order in the table of the ski
\* areas, come out in ascending order
C18_Witness ==
    /\ pc = "aggregated"
    /\ Len(groups) = 2
    /\ RegionRank(ski_areas[1].region) > RegionRank(ski_areas[2].region)
    /\ groups[1].region = ski_areas[2].region
    /\ groups[2].region = ski_areas[1].region

\* every row of the table alone is a row of groups
RowsAmongGroups(alone) ==
    alone.raised = None =>
        \A k \in 1..Len(alone.rows) :
            \E l \in 1..Len(groups) : groups[l] = alone.rows[k]

\* C19: the summary statistics and the histogram of a group depend on the
\* ski areas of that group only: they are what the aggregation returns for
\* the ski areas of the group alone, whatever ski areas the other groups
\* hold.
C19_GroupIndependence ==
    /\ pc \in {"aggregated", "failed"} =>
          \A g \in group_keys(ski_area_metrics) :
              RowsAmongGroups(
                  aggregate_ski_areas_pl(group_rows(ski_area_metrics, g)))
    /\ pc = "dists" =>
          \A g \in DOMAIN bearing_dists :
              bearing_dists[g] =
                  aggregate_ski_area_bearing_dists_pl(
                      group_rows(ski_area_metrics, g))[g]

\* the hemispheres of the members of a group that reach its statistics
ContributingHemispheres(rows) ==
    {drop_nulls(ski_area_struct(rows))[j].hemisphere :
        j \in 1..Len(drop_nulls(ski_area_struct(rows)))}
\* m has a poleward_affinity exactly when one hemisphere contributes, and
\* the fields that need no hemisphere in any case
PolewardRule(m, hemispheres) ==
    /\ (m.poleward_affinity # NULL) <=> (Cardinality(hemispheres) = 1)
    /\ m.bearing_mean # NULL
    /\ m.bearing_alignment # NULL
    /\ m.eastward_affinity # NULL

\* C20: the poleward_affinity of a group is null when its members carry no
\* hemisphere, and more generally it is non-null only when all the members
\* that contribute statistics share one hemisphere (a group of north and
\* south members has null), while bearing_mean, bearing_alignment and
\* eastward_affinity are computed all the same.
C20_GroupPolewardNullness ==
    /\ pc \in {"analyzed", "aggregated"} =>
          \A g \in group_keys(ski_area_metrics) :
              PolewardRule(
                  get_bearing_summary_stats_pl(
                      ski_area_struct(group_rows(ski_area_metrics, g))).model,
                  ContributingHemispheres(group_rows(ski_area_metrics, g)))
    /\ pc = "aggregated" =>
          \A k \in 1..Len(groups) :
              PolewardRule(groups[k].stats,
                  ContributingHemispheres(
                      group_rows(ski_area_metrics, groups[k].region)))

\* C20's case: a group of a northern and a southern ski area without a
\* poleward_affinity, next to a group of one hemisphere that has one
C20_Witness ==
    /\ pc = "aggregated"
    /\ \E k \in 1..Len(groups) :
          /\ groups[k].ski_areas_count = 2
          /\ ContributingHemispheres(group_rows(ski_area_metrics, groups[k].region))
                 = {"north", "south"}
          /\ groups[k].stats.poleward_affinity = NULL
          /\ groups[k].stats.bearing_alignment > 0

(***************************************************************************)
(* Claims about the validation of the metrics table, checked under         *)
(* SpecValidate.                                                           *)
(***************************************************************************)
\* C21: a schema-validation failure of the per-ski-area metrics table in
\* analyze_all_ski_areas_polars is only logged: the function does not raise
\* and the table is written to ski_area_metrics.parquet exactly as computed.
C21_ValidationFailureOnlyLogged ==
    pc # "loaded" =>
       \E computed \in {analyze_all_ski_areas_polars(ski_areas, runs)} :
          (computed.raised = None /\ ~SkiAreaModel_validate(computed.rows)) =>
             /\ ski_area_metrics = computed.rows
             /\ log = <<"SkiAreaModel.validate failed">>

\* C21's case: a table with a runConvention outside the schema was written
\* and the failure logged
C21_Witness ==
    /\ pc = "analyzed"
    /\ \E a \in 1..Len(ski_area_metrics) :
          ski_area_metrics[a].runConvention \notin RunConventions
    /\ ~SkiAreaModel_validate(ski_area_metrics)
    /\ log # <<>>

(***************************************************************************)
(* Claims about pl_flip_bearing, checked under SpecFlip.                   *)
(***************************************************************************)
\* the row is north of the equator
North == args.latitude # NULL /\ args.latitude > 0

InClosedTurn(bs) == \A j \in 1..Len(bs) : bs[j] >= 0 /\ bs[j] <= Deg(360)
\* the weight of the bearings from half a bin below the center to half a
\* bin above it, the interval taken modulo 360
WeightAround(bs, ws, center, n) ==
    SumSeq([j \in 1..Len(bs) |->
               IF (bs[j] - center + Deg(180) \div n) % Deg(360) < Deg(360) \div n
               THEN ws[j] ELSE 0])
BinsAround(rows, bs, ws, n) ==
    /\ Len(rows) = n
    /\ \A i \in 1..n :
          /\ rows[i].bin_index = i
          /\ rows[i].bin_center = (i - 1) * (Deg(360) \div n)
          /\ rows[i].bin_count = WeightAround(bs, ws, rows[i].bin_center, n)

\* C23: for each num_bins n, get_bearing_histogram returns exactly n bins
\* with bin_index 1..n, bin i centered at (i-1)*360/n, whose bin_count is
\* the total weight of the bearings b with center - 180/n <= b < center +
\* 180/n taken modulo 360: a bearing on a bin center is counted wholly in
\* that bin, and bearings just below 360 and just above 0 fall in bin 1.
C23_BinEdgeAvoidance ==
    (Built /\ InClosedTurn(args.bearings)) =>
        /\ Resolutions(result.rows) # {}
        /\ \A n \in Resolutions(result.rows) :
              /\ \E k \in 1..Len(BearingBins) : BearingBins[k] = n
              /\ BinsAround(SelectSeq(result.rows, LAMBDA r : r.num_bins = n),
                            args.bearings, args.weights, n)

\* C23's case: a bearing just below 360 and one just above 0, both counted
\* in the first of the 32 bins
C23_Witness ==
    /\ Built /\ pc = "done"
    /\ args.bearings = <<NearTurn, Deg(360) - NearTurn>>
    /\ args.weights = <<One, 2 * One>>
    /\ \E i \in 1..Len(result.rows) :
          /\ result.rows[i].num_bins = 32 /\ result.rows[i].bin_index = 1
          /\ result.rows[i].bin_count = 3 * One


(***************************************************************************)
(* Claims about create_ski_area_roses, checked under SpecRoses.            *)
(***************************************************************************)
\* the paths a task writes
PathsOf(task) == {task.preview_path, task.full_path}
\* the file is on one of the paths
OnPaths(f, paths) ==
    \E path \in paths : f.directory = path.directory /\ f.name = path.name
\* every file holds the rose of the ski area it is named after, at the
\* resolution of its directory, and no path holds two files
OwnRoses(files) ==
    /\ \A f \in files :
          /\ f.rose.ski_area_id = f.name
          /\ f.rose.num_bins = (IF f.directory = "roses-preview" THEN 8 ELSE 32)
          /\ f.directory \in {"roses-preview", "roses-full"}
    /\ \A f, g \in files :
          (f.directory = g.directory /\ f.name = g.name) => f = g
\* a step of the pool leaves the metrics table alone and changes at most
\* one task, and the files on the paths of that task only
OneTaskStep ==
    (pc = "pool" /\ pc' = "pool") =>
       /\ ski_area_metrics' = ski_area_metrics
       /\ Len(futures') = Len(futures)
       /\ \E t \in 1..Len(futures) :
             /\ \A u \in 1..Len(futures) : u # t => futures'[u] = futures[u]
             /\ futures'[t].ski_area_id = futures[t].ski_area_id
             /\ PathsOf(futures'[t]) = PathsOf(futures[t])
             /\ {f \in roses : ~OnPaths(f, PathsOf(futures[t]))}
                    = {f \in roses' : ~OnPaths(f, PathsOf(futures[t]))}

\* C24: rose rendering in the worker pool needs no coordination: a render
\* task only reads the data passed to it, and no two tasks write the same
\* file (the preview and full paths of a task come from its own
\* ski_area_id), so no interleaving of tasks corrupts the output of another
\* task or the metrics table.
C24_TasksIndependent ==
    /\ [](/\ \A t, u \in 1..Len(futures) :
                t # u => PathsOf(futures[t]) \cap PathsOf(futures[u]) = {}
          /\ \A t \in 1..Len(futures) :
                /\ Cardinality(PathsOf(futures[t])) = 2
                /\ \A path \in PathsOf(futures[t]) :
                      path.name = futures[t].ski_area_id
          /\ OwnRoses(roses))
    /\ [][OneTaskStep]_vars

\* C24's case: two tasks in flight at once, each between its preview and
\* its full rose
C24_Witness ==
    /\ pc = "pool"
    /\ Len(futures) = 2
    /\ futures[1].state = "preview" /\ futures[2].state = "preview"
    /\ \A t \in 1..2 :
          \E f \in roses : /\ f.directory = "roses-preview"
                          /\ f.name = futures[t].ski_area_id
                          /\ f.call = args.call

\* the rose file of the ski area id in the directory
RoseFiles(files, directory, id) ==
    {f \in files : f.directory = directory /\ f.name = id}

\* C26: when create_ski_area_roses returns normally, every ski area that
\* was selected for rendering has had its render task executed to
\* completion, so both its preview and its full rose file exist; a render
\* task that fails is never silently discarded.
C26_AllRendered ==
    pc = "returned" =>
       \A t \in 1..Len(futures) :
          /\ futures[t].state = "done"
          /\ \E f \in RoseFiles(roses, "roses-preview", futures[t].ski_area_id) :
                f.call = args.call
          /\ \E f \in RoseFiles(roses, "roses-full", futures[t].ski_area_id) :
                f.call = args.call

\* the ski areas a call with overwrite queues, given the files at its start
Queued(table, files, overwrite) ==
    {table[a].ski_area_id : a \in
        {b \in 1..Len(table) :
            /\ display_filter(table[b])
            /\ (overwrite \/ RoseFiles(files, "roses-full", table[b].ski_area_id) = {})}}
\* the step that queues the tasks queues one for each of those ski areas
QueuesExactly ==
    (pc # "pool" /\ pc' = "pool") =>
       /\ {futures'[t].ski_area_id : t \in 1..Len(futures')}
              = Queued(ski_area_metrics, roses, args'.overwrite)
       /\ Len(futures') =
              Cardinality(Queued(ski_area_metrics, roses, args'.overwrite))
\* a step of a call without overwrite keeps the files of the directories
KeepsFiles(directories) ==
    (pc = "pool" /\ ~args.overwrite) =>
       \A f \in roses : f.directory \in directories => f \in roses'

Nearest(x) == CHOOSE r \in {10 * ((x \div 10) + d) : d \in {0, 1}} :
                  2 * (IF r > x THEN r - x ELSE x - r) < 10
\* the points at or above min_elevation, rounded, in their order
KeptRounded ==
    LET kept == SelectSeq(args.coordinates,
                          LAMBDA p : p.ele >= args.min_elevation)
    IN np_array([j \in 1..Len(kept) |->
                    [lon |-> Nearest(kept[j].lon), lat |-> Nearest(kept[j].lat),
                     ele |-> Nearest(kept[j].ele)]])
Backwards(coords) ==
    np_array([j \in 1..Len(coords) |-> coords[Len(coords) + 1 - j]])
Cleaned(clean, kept) ==
    /\ clean = kept \/ clean = Backwards(kept)
    /\ ~args.ensure_downhill => clean = kept
    /\ (args.ensure_downhill /\ clean # <<>>) =>
          clean[1].ele >= clean[Len(clean)].ele
    /\ kept = <<>> => clean = <<>>

\* C25: _clean_coordinates returns the input points whose elevation is >=
\* min_elevation (default -100), each rounded, in their original order or
\* fully reversed, such that with ensure_downhill the first elevation is >=
\* the last; an input that is empty or loses all its points yields an empty
\* list, and cleaning a cleaned list returns it unchanged.
C25_CleanCoordinates ==
    /\ Len(result) >= 1 => Cleaned(result[1], KeptRounded)
    /\ Len(result) >= 2 => result[2] = result[1]

\* C25's case: an uphill list whose first point lies below min_elevation,
\* returned without that point, rounded and reversed, and cleaned again
C25_Witness ==
    /\ Len(result) = 2
    /\ args.ensure_downhill /\ args.min_elevation = -100 * 1000
    /\ Len(args.coordinates) = 3
    /\ args.coordinates[1].ele < args.min_elevation
    /\ args.coordinates[2].ele = 1234 /\ args.coordinates[3].ele = 2000
    /\ Len(result[1]) = 2
    /\ result[1][1].ele = 2000 /\ result[1][2].ele = 1230
    /\ result[2] = result[1]

(***************************************************************************)
(* Claims about the members of a group, checked under Spec.                *)
(***************************************************************************)
\* the table without its row a
WithoutRow(table, a) ==
    np_array([j \in 1..(Len(table) - 1) |->
                 IF j < a THEN table[j] ELSE table[j + 1]])
\* the rows of the ski areas without runs
NoRunRows(table) ==
    {a \in 1..Len(table) :
        table[a].stats = NoModel /\ table[a].bearings = NoBearings}
\* the row of the group counts the ski area, and is otherwise the row the
\* group has in the aggregation without it
SameButCount(row, without) ==
    \E j \in 1..Len(without) :
       /\ without[j].region = row.region
       /\ without[j].stats = row.stats
       /\ without[j].bearings = row.bearings
       /\ without[j].ski_areas_count + 1 = row.ski_areas_count
       /\ row.stats # NoModel /\ row.stats.bearing_mean # NULL
\* every row of a group of the ski area a is such a row
FrameOfNoRun(a) ==
    \E without \in {aggregate_ski_areas_pl(WithoutRow(ski_area_metrics, a))} :
       \A k \in 1..Len(groups) :
          groups[k].region = ski_area_metrics[a].region =>
             /\ without.raised = None
             /\ SameButCount(groups[k], without.rows)
             /\ groups[k].ski_areas_count
                    = Len(group_rows(ski_area_metrics, groups[k].region))
\* the group of the ski area a has a row
CountedInGroup(a) ==
    \E k \in 1..Len(groups) : groups[k].region = ski_area_metrics[a].region

\* C28: a ski area with no runs (null statistics and null histogram) that
\* belongs to a group is counted in the group's ski_areas_count but
\* contributes nothing else: the group's bearing_mean, bearing_alignment,
\* magnitudes, affinities and histogram are those of the same group without
\* that ski area, and its nulls never make the group's statistics null.
C28_NoRunSkiAreaOnlyCounted ==
    pc = "aggregated" =>
       \A a \in NoRunRows(ski_area_metrics) :
          CountedInGroup(a) /\ FrameOfNoRun(a)

\* C28 for the groups that have a row: the part of it that holds
C28_FrameWhereGroupHasRow ==
    pc = "aggregated" =>
       \A a \in NoRunRows(ski_area_metrics) : FrameOfNoRun(a)


(***************************************************************************)
(* Claims about add_spatial_metric_columns, checked under SpecSegments.    *)
(***************************************************************************)
\* the rows of the run in the output, and those that are segments
RunRows(df, run_id) == {j \in 1..Len(df) : df[j].run_id = run_id}
SegmentRows(df, run_id) ==
    {j \in RunRows(df, run_id) : df[j].segment_hash # NoSegmentHash}
\* the row of the coordinate c of a run is the segment from the coordinate
\* b before it, with the drop from b to c as its weight
SegmentBetween(row, b, c) ==
    /\ row.segment_hash = <<b.latitude, b.longitude, c.latitude, c.longitude>>
    /\ row.distance_vertical_drop
           = (IF b.elevation - c.elevation > 0
              THEN b.elevation - c.elevation ELSE 0)
    /\ row.distance_vertical_drop >= 0
SegmentsOfRun(df, run) ==
    LET coords == run.run_coordinates_clean
    IN /\ Cardinality(SegmentRows(df, run.run_id))
              = (IF coords = <<>> THEN 0 ELSE Len(coords) - 1)
       /\ \A j \in RunRows(df, run.run_id) :
             IF df[j].index = NULL \/ df[j].index = 0
             THEN /\ df[j].segment_hash = NoSegmentHash
                  /\ df[j].distance_vertical = NULL
                  /\ df[j].distance_vertical_drop = NULL
             ELSE SegmentBetween(df[j], coords[df[j].index],
                                 coords[df[j].index + 1])
       /\ Cardinality(RunRows(df, run.run_id))
              = (IF coords = <<>> THEN 1 ELSE Len(coords))

\* C29: for every run with k coordinates add_spatial_metric_columns yields
\* exactly k-1 segments (the first coordinate of the run has a null
\* segment_hash and no lagged values), each segment is formed from two
\* consecutive coordinates of the same run in index order, never across
\* two runs, and its weight distance_vertical_drop = max(0, previous
\* elevation - elevation) is never negative.
C29_SegmentExtraction ==
    pc = "done" =>
       \A r \in 1..Len(args.runs_df) : SegmentsOfRun(result, args.runs_df[r])

\* C29's case: two runs of three and two coordinates, with two segments
\* and one, among them a segment that climbs and has a drop of 0
C29_Witness ==
    /\ pc = "done"
    /\ Len(args.runs_df) = 2
    /\ Len(args.runs_df[1].run_coordinates_clean) = 3
    /\ Len(args.runs_df[2].run_coordinates_clean) = 2
    /\ Cardinality(SegmentRows(result, 1)) = 2
    /\ Cardinality(SegmentRows(result, 2)) = 1
    /\ \E j \in SegmentRows(result, 1) :
          result[j].distance_vertical < 0 /\ result[j].distance_vertical_drop = 0
    /\ \E j \in SegmentRows(result, 2) : result[j].distance_vertical_drop > 0

(***************************************************************************)
(* Claims about the runs of the ski areas, checked under SpecRuns.         *)
(***************************************************************************)
\* the downhill runs that list the ski area
RunsListing(ski_area_id) ==
    {r \in 1..Len(runs) :
        /\ "downhill" \in runs[r].run_uses
        /\ \E k \in 1..Len(runs[r].ski_area_ids) :
              runs[r].ski_area_ids[k] = ski_area_id}
\* the vertical drop of the segments of the run r
RunDrop(r) ==
    SumSeq([j \in 1..Len(runs[r].run_coordinates_clean) |->
               IF runs[r].run_coordinates_clean[j].distance_vertical_drop = NULL
               THEN 0
               ELSE runs[r].run_coordinates_clean[j].distance_vertical_drop])
RECURSIVE SegmentsOfRuns(_, _)
\* the coordinate rows of the runs r, r + 1, ... that are in the set
SegmentsOfRuns(listing, r) ==
    IF r > Len(runs) THEN <<>>
    ELSE (IF r \in listing THEN runs[r].run_coordinates_clean ELSE <<>>)
         \o SegmentsOfRuns(listing, r + 1)
\* the row of a ski area holds all the segments of the runs listing it
HoldsRuns(row, listing, segments) ==
    IF listing = {}
    THEN /\ row.stats = NoModel /\ row.bearings = NoBearings
         /\ row.run_count = NULL /\ row.combined_vertical = NULL
    ELSE /\ row.run_count = Cardinality(listing)
         /\ row.combined_vertical
                = SumOver([r \in 1..Len(runs) |-> RunDrop(r)], listing)
         /\ row.stats.bearing_magnitude_cum = row.combined_vertical
         /\ row.stats = get_bearing_summary_stats_pl(run_struct(segments)).model
         /\ row.bearings = run_histograms(segments).rows
\* the members of a group, and how many of them each run counts for
Members(region) ==
    {a \in 1..Len(ski_area_metrics) : ski_area_metrics[a].region = region}
TimesCounted(region) ==
    [r \in 1..Len(runs) |->
        Cardinality({a \in Members(region) :
                        r \in RunsListing(ski_area_metrics[a].ski_area_id)})]
\* the row of a group counts every run once for each member listing it
CountsRuns(row, times, members) ==
    /\ row.run_count = SumOver(times, 1..Len(runs))
    /\ row.combined_vertical
           = SumOver([r \in 1..Len(runs) |-> times[r] * RunDrop(r)],
                     1..Len(runs))
    /\ row.stats.bearing_magnitude_cum
           = SumOver([a \in 1..Len(ski_area_metrics) |->
                         ski_area_metrics[a].stats.bearing_magnitude_cum],
                     {a \in members : ski_area_metrics[a].stats # NoModel})

\* C30: a downhill run that lists k >= 1 ski areas contributes all of its
\* segments to the statistics and histogram of each of those k ski areas,
\* and a run that lists no ski area contributes to none; a group containing
\* m of those ski areas counts the run's run_count and vertical weight m
\* times, and the group's bearing_magnitude_cum equals the sum of its
\* members' bearing_magnitude_cum.
C30_RunsOfSkiAreas ==
    /\ pc \in {"analyzed", "aggregated", "dists"} =>
          \A a \in 1..Len(ski_area_metrics) :
             \E listing \in {RunsListing(ski_area_metrics[a].ski_area_id)} :
                HoldsRuns(ski_area_metrics[a], listing,
                          SegmentsOfRuns(listing, 1))
    /\ pc = "aggregated" =>
          \A k \in 1..Len(groups) :
             CountsRuns(groups[k], TimesCounted(groups[k].region),
                        Members(groups[k].region))

\* C30's case: a downhill run that lists both ski areas of a region, next
\* to a run that lists none: the group counts the first run twice
C30_Witness ==
    /\ pc = "aggregated"
    /\ Len(runs[1].ski_area_ids) = 2 /\ "downhill" \in runs[1].run_uses
    /\ runs[2].ski_area_ids = <<>> /\ "downhill" \in runs[2].run_uses
    /\ Len(groups) = 1
    /\ groups[1].ski_areas_count = 2
    /\ groups[1].run_count = 2
    /\ groups[1].combined_vertical = 2 * RunDrop(1)
    /\ groups[1].stats.bearing_magnitude_cum = 2 * RunDrop(1)
    /\ RunDrop(1) > 0
=============================================================================
